---- MODULE Spec2Model ----
(***************************************************************************)
(* Fadroma contract lifecycle: ContractTemplate / Contract (build, upload, *)
(* instantiate as lazily started, memoized tasks) and the Deployment's     *)
(* contract registry.                                                      *)
(***************************************************************************)
EXTENDS Integers, Sequences, FiniteSets, TLC

VARIABLES contract, tasks, state, saves, got, bundle, calc,
          chain, ensemble, script, devnet

vars == <<contract, tasks, state, saves, got, bundle, calc,
         chain, ensemble, script, devnet>>

\* the contracts and their deployment; a Bundle and the inputs and results
\* of the functions that stand alone
lifecycle == <<contract, tasks, state, saves, got>>
platform == <<chain, ensemble, script, devnet>>
others == <<bundle, calc, platform>>

(* ------------------------------ bounds --------------------------------- *)

\* number of Contract objects that can exist in one run
NContracts == 3
\* number of Task objects that can be created in one run
MaxTasks == 3

(* ------------------------------ values --------------------------------- *)

\* no Bundle constructed, no function applied
NoBundle == [depth |-> 0]
NoCalc == [op |-> "none"]
NoChain == [op |-> "none"]
NoEnsemble == [op |-> "none"]
NoScript == [op |-> "none"]
NoDevnet == [op |-> "none"]

\* no Chain, Ensemble, build script or Devnet in play
NoPlatform ==
  /\ chain = NoChain
  /\ ensemble = NoEnsemble
  /\ script = NoScript
  /\ devnet = NoDevnet

\* JavaScript's undefined: the value of every optional field that is not set
Undef == "undefined"

Contracts == 1..NContracts

\* names (ids) of contracts within the deployment
Names == {"a"}

\* Deployment.name, Deployment.agent
DeploymentName == "dep"
DeploymentAgent == "agent"

\* !x for the optional string fields
Unset(v) == v = Undef
IsSet(v) == v # Undef

(* ---------------------------- core-fields ------------------------------ *)

\* what the `prefix` property holds once the constructor has replaced it by
\* the accessor { get () { return self.context?.name }, set (v) {...} }
Accessor == "get context.name"

\* self[k] = v, with a plain write in place of the setter of `prefix`
AssignPlain(self, k, v) == [self EXCEPT ![k] = v]

\* self[k] = v: a write of the property; on the `prefix` accessor the setter
\* runs, which warns and installs the same accessor again
Assign(self, k, v) ==
  IF k = "prefix" /\ self[k] = Accessor THEN self ELSE [self EXCEPT ![k] = v]

\* override(self, options): copy the options that are defined onto the
\* properties that self already has
Override(self, options) ==
  [k \in DOMAIN self |->
     IF k \in DOMAIN options /\ options[k] # Undef
     THEN Assign(self, k, options[k])[k] ELSE self[k]]

\* writeLabel({ prefix, name, suffix }): (prefix + "/")? + name + ("+" + suffix)?
WriteLabel(prefix, name, suffix) ==
  IF Unset(name) THEN Undef
  ELSE (IF IsSet(prefix) THEN prefix \o "/" ELSE "") \o name
       \o (IF IsSet(suffix) THEN "+" \o suffix ELSE "")

(* ------------------------------ Contract ------------------------------- *)

\* the fields of class Contract that the lifecycle reads and writes
\* (context: the Deployment the contract belongs to, by name), plus the
\* own-property getters that `uploaded` and `deployed` install
\* (0: the prototype getter is still in place), and the contract whose many()
\* made this one (0: none)
BlankContract ==
  [ alive     |-> FALSE,
    context   |-> Undef,
    agent     |-> Undef,
    id        |-> Undef,
    initMsg   |-> Undef,
    crate     |-> Undef,
    artifact  |-> Undef,
    codeHash  |-> Undef,
    chainId   |-> Undef,
    codeId    |-> Undef,
    address   |-> Undef,
    label     |-> Undef,
    prefix    |-> Undef,
    suffix    |-> Undef,
    uploading |-> 0,
    deploying |-> 0,
    from      |-> 0 ]

\* this.prefix: through the accessor get () { return self.context?.name }
\* when the constructor installed it, else the value of the property
Prefix(c) ==
  IF c.prefix = Accessor
  THEN (IF IsSet(c.context) THEN DeploymentName ELSE Undef)
  ELSE c.prefix

\* new Contract(options): override(this, options); with a context, the
\* defaults that come from it and the `prefix` accessor; then
\* override(this, options) again
NewContract(options) ==
  LET o == Override([BlankContract EXCEPT !.alive = TRUE], options)
      d == IF IsSet(o.context)
           THEN [o EXCEPT !.agent  = IF Unset(@) THEN DeploymentAgent ELSE @,
                          !.prefix = Accessor]
           ELSE o
  IN  Override(d, options)

\* new $C(this.agent, this.address, this.codeHash, this)
Client(c) == [address |-> c.address, codeHash |-> c.codeHash]
NoClient == [address |-> Undef, codeHash |-> Undef]

(* -------------------------------- Task --------------------------------- *)

\* A Task is a promise that runs its function when it is first awaited and
\* keeps the outcome.  pc: where the task's async function stands.
\*   new                       created, its function not run yet
\*   building                  builder.build called, not answered yet
\*   awaitCompiled             uploadContract suspended at `await this.compiled`
\*   uploading                 upload(...) called, not answered yet
\*   awaitUploaded             deployContract suspended at `await this.uploaded`
\*   instantiating             agent.instantiate called, not answered yet
\*   resolved / rejected       settled
BlankTask(kind, c, arg) ==
  [ kind   |-> kind,      \* "build", "upload" or "deploy"
    c      |-> c,         \* the contract the task is bound to
    pc     |-> "new",
    waits  |-> 0,         \* the task it awaits (0: an already resolved promise)
    called |-> FALSE,     \* the backend call of this stage was made
    err    |-> "",        \* what the task rejected with
    arg    |-> arg,       \* deploy's initMsg argument
    val    |-> NoClient ] \* the client a deploy task resolved to

Settled(t) == t.pc \in {"resolved", "rejected"}

\* A world is the pair of the contracts and the task table: the getters and
\* the tasks' bodies below map a world to a world.
World(cs, ts) == [cs |-> cs, ts |-> ts]

\* defineTask(name, fn, this): a new task, not started
DefineTask(w, kind, c, arg) ==
  [w EXCEPT !.ts = Append(w.ts, BlankTask(kind, c, arg))]

Reject(w, t, err) ==
  [w EXCEPT !.ts[t].pc = "rejected", !.ts[t].err = err]

\* what the promise that task t awaits settled to ("": it has not settled)
Awaited(ts, t) ==
  IF ts[t].waits = 0 THEN "resolved"
  ELSE IF Settled(ts[ts[t].waits]) THEN ts[ts[t].waits].pc ELSE ""

(* ----------------------- ContractTemplate: build ----------------------- *)

\* define as Object.assign would do it: every option is copied, the
\* undefined ones too
DefineAssign(c, options) ==
  [k \in DOMAIN c |-> IF k \in DOMAIN options THEN options[k] ELSE c[k]]

\* define(options): override(this, options)
Define(c, options) == Override(c, options)

\* build(): a new task on every call
Build(w, c) == DefineTask(w, "build", c, Undef)

\* get compiled: the contract itself when the artifact is there, else build().
\* ret is the task returned (0: Promise.resolve(this))
GetCompiled(w, c) ==
  IF IsSet(w.cs[c].artifact)
  THEN [w |-> w, ret |-> 0]
  ELSE [w |-> Build(w, c), ret |-> Len(w.ts) + 1]

\* buildContract, up to `await builder.build(this)`
StartBuild(w, t) ==
  IF Unset(w.cs[w.ts[t].c].crate)
  THEN Reject(w, t, "NoCrate")
  ELSE [w EXCEPT !.ts[t].pc = "building", !.ts[t].called = TRUE]

(* ---------------------- ContractTemplate: upload ----------------------- *)

\* upload(): a new task on every call
Upload(w, c) == DefineTask(w, "upload", c, Undef)

\* get uploaded without the redefinition of the property: upload() on every
\* access without a codeId
GetUploadedFresh(w, c) ==
  IF IsSet(w.cs[c].codeId)
  THEN [w |-> w, ret |-> 0]
  ELSE [w |-> Upload(w, c), ret |-> Len(w.ts) + 1]

\* get uploaded: the first access without a codeId creates the upload task
\* and redefines the property to return that task from then on
GetUploaded(w, c) ==
  IF w.cs[c].uploading # 0
  THEN [w |-> w, ret |-> w.cs[c].uploading]
  ELSE IF IsSet(w.cs[c].codeId)
  THEN [w |-> w, ret |-> 0]
  ELSE [w   |-> [Upload(w, c) EXCEPT !.cs[c].uploading = Len(w.ts) + 1],
        ret |-> Len(w.ts) + 1]

\* uploadContract, up to `await this.compiled`: awaiting the build task
\* starts it
StartUpload(w, t) ==
  LET g  == GetCompiled(w, w.ts[t].c)
      w2 == IF g.ret = 0 THEN g.w ELSE StartBuild(g.w, g.ret)
  IN  [w2 EXCEPT !.ts[t].pc = "awaitCompiled", !.ts[t].waits = g.ret]

\* uploadContract after `await this.compiled`: a failed build fails the
\* upload, else upload(this, uploader, uploader?.agent) is called
ContinueUpload(w, t) ==
  IF Awaited(w.ts, t) = "rejected"
  THEN Reject(w, t, w.ts[w.ts[t].waits].err)
  ELSE [w EXCEPT !.ts[t].pc = "uploading", !.ts[t].called = TRUE]

\* task.then(...) on an upload task: run it unless it has been started
ThenUpload(w, t) ==
  IF t # 0 /\ w.ts[t].pc = "new" THEN StartUpload(w, t) ELSE w

(* --------------------------- Contract: deploy -------------------------- *)

\* deploy(initMsg = this.initMsg): a new task on every call
Deploy(w, c, initMsg) ==
  DefineTask(w, "deploy", c, IF Unset(initMsg) THEN w.cs[c].initMsg ELSE initMsg)

\* get deployed: the first access without an address creates the deploy
\* task and redefines the property to return that task from then on
GetDeployed(w, c) ==
  IF w.cs[c].deploying # 0
  THEN [w |-> w, ret |-> w.cs[c].deploying]
  ELSE IF IsSet(w.cs[c].address)
  THEN [w |-> w, ret |-> 0]
  ELSE [w   |-> [Deploy(w, c, Undef) EXCEPT !.cs[c].deploying = Len(w.ts) + 1],
        ret |-> Len(w.ts) + 1]

\* deployContract with `await this.uploaded` moved before the checks of
\* agent, name, label and init message
StartDeployLate(w, t) ==
  LET k  == w.ts[t].c
      c  == w.cs[k]
      l  == WriteLabel(Prefix(c), c.id, c.suffix)
      g  == GetUploaded([w EXCEPT !.cs[k].label = l], k)
      w2 == [ThenUpload(g.w, g.ret) EXCEPT !.ts[t].waits = g.ret]
  IN  IF Unset(c.agent)        THEN Reject(w2, t, "NoAgent")
      ELSE IF Unset(c.id)      THEN Reject(w2, t, "NoName")
      ELSE IF Unset(l)         THEN Reject(w2, t, "NoInitLabel")
      ELSE IF Unset(c.initMsg) THEN Reject(w2, t, "NoInitMessage")
      ELSE [w2 EXCEPT !.ts[t].pc = "awaitUploaded"]

\* deployContract, up to `await this.uploaded`
StartDeploy(w, t) ==
  LET k  == w.ts[t].c
      c  == w.cs[k]
      l  == WriteLabel(Prefix(c), c.id, c.suffix)
      wl == [w EXCEPT !.cs[k].label = l]
  IN  IF Unset(c.agent)        THEN Reject(w, t, "NoAgent")
      ELSE IF Unset(c.id)      THEN Reject(w, t, "NoName")
      ELSE IF Unset(l)         THEN Reject(wl, t, "NoInitLabel")
      ELSE IF Unset(c.initMsg) THEN Reject(wl, t, "NoInitMessage")
      ELSE LET g  == GetUploaded(wl, k)
               w2 == ThenUpload(g.w, g.ret)
           IN  [w2 EXCEPT !.ts[t].pc = "awaitUploaded", !.ts[t].waits = g.ret]

\* deployContract without `if (!this.codeId) throw new Error.NoInitCodeId`
ContinueDeployUnchecked(w, t) ==
  LET k == w.ts[t].c
  IN  IF Awaited(w.ts, t) = "rejected"
      THEN Reject(w, t, w.ts[w.ts[t].waits].err)
      ELSE [w EXCEPT !.cs[k].initMsg = IF Unset(@) THEN w.ts[t].arg ELSE @,
                     !.ts[t].pc = "instantiating",
                     !.ts[t].called = TRUE]

\* deployContract after `await this.uploaded`, up to
\* `await this.agent.instantiate(this)`
ContinueDeploy(w, t) ==
  LET k == w.ts[t].c
  IN  IF Awaited(w.ts, t) = "rejected"
      THEN Reject(w, t, w.ts[w.ts[t].waits].err)
      ELSE IF Unset(w.cs[k].codeId)
      THEN Reject(w, t, "NoInitCodeId")
      ELSE [w EXCEPT !.cs[k].initMsg = IF Unset(@) THEN w.ts[t].arg ELSE @,
                     !.ts[t].pc = "instantiating",
                     !.ts[t].called = TRUE]

(* ------------------------- running the tasks --------------------------- *)

\* task.then(...): the first one runs the task's function up to its first
\* suspension; later ones attach to the same run
Then(w, t) ==
  IF w.ts[t].pc # "new" THEN w
  ELSE CASE w.ts[t].kind = "build"  -> StartBuild(w, t)
         [] w.ts[t].kind = "upload" -> StartUpload(w, t)
         [] w.ts[t].kind = "deploy" -> StartDeploy(w, t)

\* the continuation of task t, when what it awaits has settled
Continue(w, t) ==
  IF Awaited(w.ts, t) = "" THEN w
  ELSE IF w.ts[t].pc = "awaitCompiled" THEN ContinueUpload(w, t)
  ELSE IF w.ts[t].pc = "awaitUploaded" THEN ContinueDeploy(w, t)
  ELSE w

RECURSIVE ContinueFrom(_, _)
ContinueFrom(w, t) ==
  IF t > Len(w.ts) THEN w ELSE ContinueFrom(Continue(w, t), t + 1)

\* the promise jobs that follow a settlement: every task whose awaited
\* promise has settled goes on to its next suspension, until none can
RECURSIVE Run(_)
Run(w) ==
  LET w2 == ContinueFrom(w, 1) IN IF w2 = w THEN w ELSE Run(w2)

(* ------------------------------ backends ------------------------------- *)

\* what builder.build(contract) can resolve to: a Built, with or without
\* its fields
BuildResults ==
  { [artifact |-> "wasm", codeHash |-> "hash"],
    [artifact |-> Undef,  codeHash |-> Undef] }

\* what upload(contract, uploader, agent) can resolve to: an Uploaded
UploadResults ==
  { [chainId |-> "chain", codeId |-> "1",   codeHash |-> "hash"],
    [chainId |-> Undef,   codeId |-> Undef, codeHash |-> Undef] }

\* what agent.instantiate(contract) can resolve to: an Instantiated
InstantiateResults ==
  { [address |-> "addr", codeHash |-> "hash", chainId |-> "chain"],
    [address |-> Undef,  codeHash |-> Undef,  chainId |-> Undef] }

(* ----------------------------- Deployment ------------------------------ *)

\* d.state[name]: the object stored under a name (obj: the Contract object,
\* 0 for the result object of agent.instantiate)
NoEntry == [present |-> FALSE, address |-> Undef, codeHash |-> Undef, obj |-> 0]

\* has (name) { return !!d.state[name] }
Has(st, name) == st[name].present

\* set(name, contract): contract.context = d; d.state[name] = contract; d.save()
Set(st, name, address, codeHash, obj) ==
  [st EXCEPT ![name] = [present |-> TRUE, address |-> address,
                        codeHash |-> codeHash, obj |-> obj]]

(* ------------------------------ the callers ---------------------------- *)

\* what the last caller got: from a getter, the task (ret; 0: a resolved
\* promise), where that task stood when the getter returned it (pc), whether
\* the stage's terminal field was set (had) and the client that a resolved
\* promise of `deployed` holds (val); from Deployment.contract(name), the
\* object returned (what, c) and whether the name was present (had)
Got(op, k, ret, had, w0, w) ==
  [ op   |-> op, what |-> "task", c |-> k, ret |-> ret, had |-> had,
    read |-> Undef, rets |-> << >>, entries |-> << >>,
    pc   |-> IF ret = 0 THEN "resolved"
             ELSE IF ret > Len(w0.ts) THEN "new" ELSE w0.ts[ret].pc,
    val  |-> IF op = "deployed" /\ ret = 0 THEN Client(w.cs[k]) ELSE NoClient ]

NoAccess ==
  [ op |-> "none", what |-> "none", c |-> 0, ret |-> 0, had |-> FALSE,
    read |-> Undef, rets |-> << >>, entries |-> << >>, pc |-> "resolved", val |-> NoClient ]

\* the step's outcome becomes the next state, within the bound on tasks
Commit(world) ==
  \E w \in {world} :
    /\ Len(w.ts) <= MaxTasks
    /\ contract' = w.cs
    /\ tasks' = w.ts

Now == World(contract, tasks)

\* await on what a getter or a call returned
AwaitRet(g) == Run(IF g.ret = 0 THEN g.w ELSE Then(g.w, g.ret))

\* await contract.compiled
AwaitCompiled(k) ==
  /\ contract[k].alive
  /\ \E g \in {GetCompiled(Now, k)} : \E w \in {AwaitRet(g)} :
         /\ Commit(w)
         /\ got' = Got("compiled", k, g.ret, IsSet(contract[k].artifact), Now, w)
  /\ UNCHANGED <<state, saves>>
  /\ UNCHANGED others

\* await contract.uploaded, await template()
AwaitUploaded(k) ==
  /\ contract[k].alive
  /\ \E g \in {GetUploaded(Now, k)} : \E w \in {AwaitRet(g)} :
         /\ Commit(w)
         /\ got' = Got("uploaded", k, g.ret, IsSet(contract[k].codeId), Now, w)
  /\ UNCHANGED <<state, saves>>
  /\ UNCHANGED others

\* await contract.deployed, await contract()
AwaitDeployed(k) ==
  /\ contract[k].alive
  /\ \E g \in {GetDeployed(Now, k)} : \E w \in {AwaitRet(g)} :
         /\ Commit(w)
         /\ got' = Got("deployed", k, g.ret, IsSet(contract[k].address), Now, w)
  /\ UNCHANGED <<state, saves>>
  /\ UNCHANGED others

\* await contract.build()
AwaitBuild(k) ==
  /\ contract[k].alive
  /\ Commit(Run(Then(Build(Now, k), Len(tasks) + 1)))
  /\ UNCHANGED <<state, saves, got>>
  /\ UNCHANGED others

\* await contract.deploy(initMsg)
AwaitDeploy(k, initMsg) ==
  /\ contract[k].alive
  /\ Commit(Run(Then(Deploy(Now, k, initMsg), Len(tasks) + 1)))
  /\ UNCHANGED <<state, saves, got>>
  /\ UNCHANGED others

(* ----------------------- the backends' answers ------------------------- *)

Settle(w, t, pc, err) == Run([w EXCEPT !.ts[t].pc = pc, !.ts[t].err = err])

\* builder.build(this) resolves: buildContract goes on with
\* this.define(result) and returns
BuildSucceeds(t, r) ==
  /\ t \in DOMAIN tasks
  /\ tasks[t].kind = "build" /\ tasks[t].pc = "building"
  /\ Commit(Settle([Now EXCEPT !.cs[tasks[t].c] = Define(@, r)],
                   t, "resolved", ""))
  /\ UNCHANGED <<state, saves, got>>
  /\ UNCHANGED others

\* builder.build(this) rejects
BuildFails(t) ==
  /\ t \in DOMAIN tasks
  /\ tasks[t].kind = "build" /\ tasks[t].pc = "building"
  /\ Commit(Settle(Now, t, "rejected", "BuildFailed"))
  /\ UNCHANGED <<state, saves, got>>
  /\ UNCHANGED others

\* upload(...) resolves: uploadContract returns this.define(result)
UploadSucceeds(t, r) ==
  /\ t \in DOMAIN tasks
  /\ tasks[t].kind = "upload" /\ tasks[t].pc = "uploading"
  /\ Commit(Settle([Now EXCEPT !.cs[tasks[t].c] = Define(@, r)],
                   t, "resolved", ""))
  /\ UNCHANGED <<state, saves, got>>
  /\ UNCHANGED others

\* upload(...) rejects
UploadFails(t) ==
  /\ t \in DOMAIN tasks
  /\ tasks[t].kind = "upload" /\ tasks[t].pc = "uploading"
  /\ Commit(Settle(Now, t, "rejected", "UploadFailed"))
  /\ UNCHANGED <<state, saves, got>>
  /\ UNCHANGED others

\* agent.instantiate(this) resolves: deployContract goes on with
\* this.define(contract); this.context.addContract(this.id, contract)
\* and returns the client
InstantiateSucceeds(t, r) ==
  /\ t \in DOMAIN tasks
  /\ tasks[t].kind = "deploy" /\ tasks[t].pc = "instantiating"
  /\ LET k == tasks[t].c
         c == Define(contract[k], r)
     IN  /\ Commit(Settle([Now EXCEPT !.cs[k] = c, !.ts[t].val = Client(c)],
                          t, "resolved", ""))
         /\ IF IsSet(c.context)
            THEN /\ state' = Set(state, c.id, r.address, r.codeHash, 0)
                 /\ saves' = saves + 1
            ELSE UNCHANGED <<state, saves>>
  /\ UNCHANGED got
  /\ UNCHANGED others

\* agent.instantiate(this) rejects, with the contract added to the
\* deployment before the call was awaited
InstantiateFailsRecorded(t) ==
  /\ t \in DOMAIN tasks
  /\ tasks[t].kind = "deploy" /\ tasks[t].pc = "instantiating"
  /\ Commit(Settle(Now, t, "rejected", "InitFailed"))
  /\ IF IsSet(contract[tasks[t].c].context)
     THEN /\ state' = Set(state, contract[tasks[t].c].id, Undef, Undef, 0)
          /\ saves' = saves + 1
     ELSE UNCHANGED <<state, saves>>
  /\ UNCHANGED got
  /\ UNCHANGED others

\* agent.instantiate(this) rejects
InstantiateFails(t) ==
  /\ t \in DOMAIN tasks
  /\ tasks[t].kind = "deploy" /\ tasks[t].pc = "instantiating"
  /\ Commit(Settle(Now, t, "rejected", "InitFailed"))
  /\ UNCHANGED <<state, saves, got>>
  /\ UNCHANGED others

(* --------------------- one contract's lifecycle ------------------------ *)

\* the options a Contract is constructed with: a contract of a deployment
\* at any stage of the lifecycle, and a contract outside a deployment that
\* is only declared, with any subset of the parameters of deploy
Options ==
  [ context  : {DeploymentName},
    agent    : {"agent"},
    id       : {"a"},
    initMsg  : {"msg"},
    crate    : {Undef, "crate"},
    artifact : {Undef, "wasm"},
    codeId   : {Undef, "1"},
    address  : {Undef, "addr0"} ]
  \cup
  [ context  : {Undef},
    agent    : {Undef, "agent"},
    id       : {Undef, "a"},
    initMsg  : {Undef, "msg"},
    crate    : {"crate"},
    artifact : {Undef},
    codeId   : {Undef},
    address  : {Undef} ]

\* a freshly constructed contract, an empty deployment, no task
Init ==
  /\ \E o \in Options :
       contract = [k \in Contracts |->
                     IF k = 1 THEN NewContract(o) ELSE BlankContract]
  /\ tasks = << >>
  /\ state = [n \in Names |-> NoEntry]
  /\ saves = 0
  /\ got = NoAccess
  /\ bundle = NoBundle
  /\ calc = NoCalc
  /\ NoPlatform

Answer(t) ==
  \/ \E r \in BuildResults : BuildSucceeds(t, r)
  \/ BuildFails(t)
  \/ \E r \in UploadResults : UploadSucceeds(t, r)
  \/ UploadFails(t)
  \/ \E r \in InstantiateResults : InstantiateSucceeds(t, r)
  \/ InstantiateFails(t)

Next ==
  \/ \E k \in Contracts :
        \/ AwaitCompiled(k)
        \/ AwaitUploaded(k)
        \/ AwaitDeployed(k)
        \/ AwaitBuild(k)
        \/ AwaitDeploy(k, Undef)
  \/ \E t \in 1..MaxTasks : Answer(t)

Spec == Init /\ [][Next]_vars

\* the argument of deploy: left out, or an init message
DeployArgs == {Undef, "given"}

\* the lifecycle driven by deploy(initMsg) alone
NextDeployWith ==
  \/ \E k \in Contracts : \E initMsg \in DeployArgs : AwaitDeploy(k, initMsg)
  \/ \E t \in 1..MaxTasks : Answer(t)

SpecDeployWith == Init /\ [][NextDeployWith]_vars

(* ---------------------- the deployment's contracts --------------------- *)

\* the next Contract object to be constructed
FreshIn(cs) == CHOOSE k \in Contracts :
                 ~cs[k].alive /\ \A j \in 1..(k - 1) : cs[j].alive
Fresh == FreshIn(contract)

\* what a contract is declared with besides its name: its init message and
\* either the codeId of uploaded code or the crate to build
DeclOptions ==
  { [initMsg |-> "msg", codeId |-> "1",   crate |-> Undef],
    [initMsg |-> "msg", codeId |-> Undef, crate |-> "crate"] }

\* what d.state[name] holds as a client: the Contract object stored at the
\* declaration, or the result of agent.instantiate stored by deployContract
EntryClient(entry) ==
  IF entry.obj # 0 THEN Client(contract[entry.obj])
  ELSE [address |-> entry.address, codeHash |-> entry.codeHash]

\* d.contract(name, opts): when the name is there, the `context` of the
\* object stored under it, which is the deployment; else a new Contract with
\* the deployment as context and the deployment's agent, stored under its
\* name and saved
DeploymentContract(name, opts) ==
  /\ IF Has(state, name)
     THEN /\ got' = [ op |-> "contract", what |-> "deployment", c |-> 0, ret |-> 0,
                      had |-> TRUE, read |-> Undef, rets |-> << >>, entries |-> << >>, pc |-> "resolved",
                      val |-> NoClient ]
          /\ UNCHANGED <<contract, tasks, state, saves>>
     ELSE /\ \E k \in Contracts : ~contract[k].alive
          /\ \E k \in {Fresh} :
               /\ contract' = [contract EXCEPT ![k] =
                     NewContract([ context |-> DeploymentName, agent |-> DeploymentAgent,
                                   prefix |-> DeploymentName,
                                   id |-> name, initMsg |-> opts.initMsg,
                                   codeId |-> opts.codeId, crate |-> opts.crate ])]
               /\ state' = Set(state, name, Undef, Undef, k)
               /\ saves' = saves + 1
               /\ got' = [ op |-> "contract", what |-> "contract", c |-> k, ret |-> 0,
                           had |-> FALSE, read |-> Undef, rets |-> << >>, entries |-> << >>, pc |-> "resolved",
                           val |-> NoClient ]
          /\ UNCHANGED tasks
  /\ UNCHANGED others

\* await contract(): getOrDeployInstance without arguments.  When the
\* deployment has the contract's id, a client made from what is stored
\* there; else a new Contract with the same options, and its `deployed`
Invoke(k) ==
  /\ contract[k].alive
  /\ IF IsSet(contract[k].context) /\ IsSet(contract[k].id)
        /\ Has(state, contract[k].id)
     THEN /\ got' = [ op |-> "invoke", what |-> "client", c |-> k, ret |-> 0,
                      had |-> TRUE, read |-> Undef, rets |-> << >>, entries |-> << >>, pc |-> "resolved",
                      val |-> EntryClient(state[contract[k].id]) ]
          /\ UNCHANGED <<contract, tasks>>
     ELSE /\ \E j \in Contracts : ~contract[j].alive
          /\ \E j \in {Fresh} :
               \E g \in {GetDeployed(
                           [Now EXCEPT !.cs[j] =
                              [contract[k] EXCEPT !.uploading = 0, !.deploying = 0,
                                                  !.from = 0]],
                           j)} :
                 \E w \in {AwaitRet(g)} :
                   /\ Commit(w)
                   /\ got' = Got("invoke", j, g.ret, IsSet(contract[k].address), Now, w)
  /\ UNCHANGED <<state, saves>>
  /\ UNCHANGED others

\* most entries in one call of many()
MaxEntries == 2

\* the entries of many(): [name, initMsg], or the options of a Contract
ManyEntries ==
  [id : Names, initMsg : {"msg"}, codeId : {Undef, "1"}]

\* deployManyContracts with the Contract made once, before the map, from
\* the first entry: every entry gets the `deployed` of that one contract
RECURSIVE DeployManyContractsShared(_, _, _, _)
DeployManyContractsShared(w, k, instances, rets) ==
  IF instances = << >> THEN [w |-> w, rets |-> rets]
  ELSE IF rets # << >>
  THEN DeployManyContractsShared(w, k, Tail(instances), Append(rets, rets[1]))
  ELSE LET j == FreshIn(w.cs)
           instance == Head(instances)
           g == GetDeployed(
                  [w EXCEPT !.cs[j] =
                     [NewContract([ context |-> w.cs[k].context,
                                    id      |-> instance.id,
                                    initMsg |-> instance.initMsg,
                                    codeId  |-> instance.codeId ])
                        EXCEPT !.from = k]],
                  j)
       IN  DeployManyContractsShared(g.w, k, Tail(instances), Append(rets, g.ret))

\* deployManyContracts: map(contracts, ...) makes, entry after entry, a new
\* Contract in the template's context from the entry alone, and takes its
\* `deployed`; rets are the tasks in the order of the entries
RECURSIVE DeployManyContracts(_, _, _, _)
DeployManyContracts(w, k, instances, rets) ==
  IF instances = << >> THEN [w |-> w, rets |-> rets]
  ELSE LET j == FreshIn(w.cs)
           instance == Head(instances)
           g == GetDeployed(
                  [w EXCEPT !.cs[j] =
                     [NewContract([ context |-> w.cs[k].context,
                                    id      |-> instance.id,
                                    initMsg |-> instance.initMsg,
                                    codeId  |-> instance.codeId ])
                        EXCEPT !.from = k]],
                  j)
       IN  DeployManyContracts(g.w, k, Tail(instances), Append(rets, g.ret))

\* awaiting the tasks that many() returned, in their order
RECURSIVE ThenAll(_, _)
ThenAll(w, rets) ==
  IF rets = << >> THEN w ELSE ThenAll(Then(w, Head(rets)), Tail(rets))

\* await contract.many([...]) and then each task of the result
Many(k, instances) ==
  /\ contract[k].alive
  /\ Cardinality({j \in Contracts : ~contract[j].alive}) >= Len(instances)
  /\ \E m \in {DeployManyContracts(Now, k, instances, << >>)} :
       \E w \in {Run(ThenAll(m.w, m.rets))} :
         /\ Commit(w)
         /\ got' = [ op |-> "many", what |-> "tasks", c |-> k, ret |-> 0,
                     had |-> FALSE, read |-> Undef, rets |-> m.rets,
                     entries |-> instances, pc |-> "resolved", val |-> NoClient ]
  /\ UNCHANGED <<state, saves>>
  /\ UNCHANGED others

\* contract.define({ prefix }) (or contract.prefix = v), and a read of
\* contract.prefix after it
DefinePrefix(k, v) ==
  /\ contract[k].alive
  /\ \E c \in {Define(contract[k], [prefix |-> v])} :
       /\ contract' = [contract EXCEPT ![k] = c]
       /\ got' = [ op |-> "prefix", what |-> "prefix", c |-> k, ret |-> 0,
                   had |-> IsSet(c.context), read |-> Prefix(c),
                   rets |-> << >>, entries |-> << >>,
                   pc |-> "resolved", val |-> NoClient ]
  /\ UNCHANGED <<tasks, state, saves>>
  /\ UNCHANGED others

\* an empty deployment: no contract declared yet
InitDeployment ==
  /\ contract = [k \in Contracts |-> BlankContract]
  /\ tasks = << >>
  /\ state = [n \in Names |-> NoEntry]
  /\ saves = 0
  /\ got = NoAccess
  /\ bundle = NoBundle
  /\ calc = NoCalc
  /\ NoPlatform

NextDeployment ==
  \/ \E n \in Names : \E o \in DeclOptions : DeploymentContract(n, o)
  \/ \E k \in Contracts :
        \/ AwaitDeployed(k)
        \/ Invoke(k)
        \/ DefinePrefix(k, "other")
        \/ \E n \in 1..MaxEntries : \E es \in [1..n -> ManyEntries] : Many(k, es)
  \/ \E t \in 1..MaxTasks : Answer(t)

SpecDeployment == InitDeployment /\ [][NextDeployment]_vars

(* ------------------------------- labels -------------------------------- *)

\* longest prefix, name or suffix tried
MaxPart == 2

\* the characters of a label: a letter and the two separators
Chars == {"a", "/", "+"}

\* strings of at most n characters, as sequences (<< >>: "" or undefined,
\* which `if (prefix)` and `if (suffix)` do not tell apart)
Parts(n) == UNION {[1..m -> Chars] : m \in 0..n}

\* writeLabel({ prefix, name, suffix }), character by character:
\* (prefix + "/")? + name + ("+" + suffix)?
WriteLabelChars(prefix, name, suffix) ==
  (IF prefix # << >> THEN prefix \o <<"/">> ELSE << >>) \o name
  \o (IF suffix # << >> THEN <<"+">> \o suffix ELSE << >>)

\* index of the first ch in s, 0 when there is none
IndexOf(s, ch) ==
  IF \E i \in 1..Len(s) : s[i] = ch
  THEN CHOOSE i \in 1..Len(s) : s[i] = ch /\ \A j \in 1..(i - 1) : s[j] # ch
  ELSE 0

\* parseLabel(label): the prefix is what precedes the first "/", the suffix
\* what follows the first "+" after it, the name what lies between
ParseLabel(label) ==
  LET i    == IndexOf(label, "/")
      rest == SubSeq(label, i + 1, Len(label))
      j    == IndexOf(rest, "+")
  IN  [ prefix |-> SubSeq(label, 1, i - 1),
        name   |-> IF j = 0 THEN rest ELSE SubSeq(rest, 1, j - 1),
        suffix |-> IF j = 0 THEN << >> ELSE SubSeq(rest, j + 1, Len(rest)) ]

\* a prefix, a name (not empty: deploy throws NoName) and a suffix
InitLabel ==
  /\ contract = [k \in Contracts |-> BlankContract]
  /\ tasks = << >>
  /\ state = [n \in Names |-> NoEntry]
  /\ saves = 0
  /\ got = NoAccess
  /\ bundle = NoBundle
  /\ NoPlatform
  /\ \E p \in Parts(MaxPart), n \in Parts(MaxPart) \ {<< >>}, x \in Parts(MaxPart) :
       calc = [ op |-> "input", prefix |-> p, name |-> n, suffix |-> x,
                label |-> << >>, parsed |-> ParseLabel(<< >>) ]

\* this.label = writeLabel(this)
WriteTheLabel ==
  /\ calc.op = "input"
  /\ calc' = [calc EXCEPT !.op = "written",
                          !.label = WriteLabelChars(calc.prefix, calc.name, calc.suffix)]
  /\ UNCHANGED <<lifecycle, bundle, platform>>

\* parseLabel(this.label)
ParseTheLabel ==
  /\ calc.op = "written"
  /\ calc' = [calc EXCEPT !.op = "parsed", !.parsed = ParseLabel(calc.label)]
  /\ UNCHANGED <<lifecycle, bundle, platform>>

NextLabel == WriteTheLabel \/ ParseTheLabel

SpecLabel == InitLabel /\ [][NextLabel]_vars

(* ------------------------------- matches ------------------------------- *)

\* properties of a contract that a predicate can name, and their values
MatchKeys == {"id", "codeId", "address"}
MatchValues == {Undef, "a", "b"}

\* matches(predicate): for (const key in predicate) { if (this[key] !==
\* predicate[key]) return true }; return true
Matches(self, predicate) ==
  IF \E key \in DOMAIN predicate : self[key] # predicate[key]
  THEN TRUE
  ELSE TRUE

\* a contract and a predicate over some of its properties
InitMatches ==
  /\ contract = [k \in Contracts |-> BlankContract]
  /\ tasks = << >>
  /\ state = [n \in Names |-> NoEntry]
  /\ saves = 0
  /\ got = NoAccess
  /\ bundle = NoBundle
  /\ NoPlatform
  /\ \E self \in [MatchKeys -> MatchValues] :
       \E keys \in SUBSET MatchKeys : \E predicate \in [keys -> MatchValues] :
         calc = [ op |-> "input", self |-> self, predicate |-> predicate,
                  result |-> FALSE ]

\* contract.matches(predicate)
CallMatches ==
  /\ calc.op = "input"
  /\ calc' = [calc EXCEPT !.op = "matched",
                          !.result = Matches(calc.self, calc.predicate)]
  /\ UNCHANGED <<lifecycle, bundle, platform>>

NextMatches == CallMatches

SpecMatches == InitMatches /\ [][NextMatches]_vars

(* ------------------------------- Bundle -------------------------------- *)

\* deepest nesting, longest message log, most submissions and most calls
\* passed on to the wrapped agent in one run
MaxDepth == 2
MaxMsgs == 2
MaxSubmits == 1
MaxAgentCalls == 1

\* this.agent.address, this.agent.chain.id
BundleAddress == "sender"

\* the messages passed to execute and instantiate
Messages == {"m1", "m2"}

\* what is disallowed in a bundle: the async methods, which reject, and the
\* getters, which throw
Disallowed ==
  {"query", "upload", "uploadMany", "getBalance", "send", "sendMany",
   "height", "nextBlock", "balance"}

\* what is passed on to the wrapped agent
Delegated == {"getCodeId", "getLabel", "getHash", "checkHash"}

\* new Bundle(agent): depth = 0, msgs = [], id = 0.  Besides the fields:
\* what was submitted and saved (the log and the number of calls), the calls
\* that reached the agent, how many bundle() calls have not been matched by
\* a run() that returned null (nested), and the last operation with what it
\* returned (level: nested when it was called)
NewBundle ==
  [ depth      |-> 0,
    msgs       |-> << >>,
    id         |-> 0,
    sent       |-> << >>,
    submits    |-> 0,
    saves      |-> 0,
    agentCalls |-> 0,
    nested     |-> 0,
    last       |-> [ op |-> "new", result |-> "bundle", level |-> 0,
                     address |-> Undef, save |-> FALSE, added |-> << >> ] ]

\* JavaScript's null
Null == "null"

Returned(b, op, result) ==
  [b EXCEPT !.last = [ op |-> op, result |-> result, level |-> b.nested,
                       address |-> Undef, save |-> FALSE, added |-> << >> ]]

\* add(msg) putting the message in front of the log
AddFirst(b, msg) ==
  [b EXCEPT !.msgs = <<msg>> \o @, !.id = @ + 1]

\* an index of msgs that nothing was stored at
Hole == [kind |-> "hole", sender |-> Undef, msg |-> Undef]

\* add(msg) storing the message under the id after the next one
AddLeavingGap(b, msg) ==
  [b EXCEPT !.msgs = [i \in 1..(b.id + 2) |->
                        IF i = b.id + 2 THEN msg
                        ELSE IF i <= Len(@) THEN @[i] ELSE Hole],
            !.id = @ + 2]

\* add(msg): const id = this.id++; this.msgs[id] = msg
Add(b, msg) ==
  [b EXCEPT !.msgs = [i \in 1..(IF b.id + 1 > Len(@) THEN b.id + 1 ELSE Len(@)) |->
                        IF i = b.id + 1 THEN msg
                        ELSE IF i <= Len(@) THEN @[i] ELSE Hole],
            !.id = @ + 1]

\* bundle(): ++this.depth; return this
BundleBundle ==
  /\ bundle.depth < MaxDepth /\ bundle.nested < MaxDepth
  /\ bundle' = Returned([bundle EXCEPT !.depth = @ + 1, !.nested = @ + 1],
                        "bundle", "this")
  /\ UNCHANGED <<lifecycle, calc, platform>>

\* a disallowed method with the call passed on to the wrapped agent, as the
\* methods of Agent do
DisallowedDelegates(op) ==
  /\ bundle.agentCalls < MaxAgentCalls
  /\ bundle' = Returned([bundle EXCEPT !.agentCalls = @ + 1], op, "delegated")
  /\ UNCHANGED <<lifecycle, calc, platform>>

\* query, upload, uploadMany, getBalance, send, sendMany, height, nextBlock,
\* balance: throw new ClientError.NotInBundle(...)
DisallowedInBundle(op) ==
  /\ bundle' = Returned(bundle, op, "NotInBundle")
  /\ UNCHANGED <<lifecycle, calc, platform>>

\* getCodeId, getLabel, getHash, checkHash: return this.agent.<op>(...)
DelegatedToAgent(op) ==
  /\ bundle.agentCalls < MaxAgentCalls
  /\ bundle' = Returned([bundle EXCEPT !.agentCalls = @ + 1], op, "delegated")
  /\ UNCHANGED <<lifecycle, calc, platform>>

\* execute passing the call on to the wrapped agent at once
ExecuteAtOnce(msg) ==
  /\ bundle.agentCalls < MaxAgentCalls
  /\ bundle' = Returned([bundle EXCEPT !.agentCalls = @ + 1], "execute", "this")
  /\ UNCHANGED <<lifecycle, calc, platform>>

\* execute(instance, msg): this.add({ exec: { sender: this.address, ... } });
\* return this
Execute(msg) ==
  /\ Len(bundle.msgs) < MaxMsgs
  /\ bundle' = Returned(Add(bundle, [kind |-> "exec", sender |-> BundleAddress,
                                     msg |-> msg]),
                        "execute", "this")
  /\ UNCHANGED <<lifecycle, calc, platform>>

\* instantiate(template, label, msg): await this.init(...), which adds
\* { init: { sender: this.address, ... } }; return { chainId, codeId,
\* codeHash, address: null }
BundleInstantiate(msg) ==
  /\ Len(bundle.msgs) < MaxMsgs
  /\ bundle' = [Returned(Add(bundle, [kind |-> "init", sender |-> BundleAddress,
                                      msg |-> msg]),
                         "instantiate", "instance")
                  EXCEPT !.last.address = Null]
  /\ UNCHANGED <<lifecycle, calc, platform>>

\* class TestBundle: async submit () { return 'submitted' }: what is
\* broadcast is the message log as it stands
Submit(b) ==
  [b EXCEPT !.sent = b.msgs, !.submits = @ + 1, !.last.result = "submitted"]

\* class TestBundle: async save () { return 'saved' }
Save(b) ==
  [b EXCEPT !.sent = b.msgs, !.saves = @ + 1, !.last.result = "saved"]

\* run(memo, save): within a nested bundle, warn with --this.depth, then
\* this.depth--, and return null; else this.save(memo) or this.submit(memo)
RunBundle(b, save) ==
  IF b.depth > 0
  THEN [b EXCEPT !.depth = (@ - 1) - 1,
                 !.nested = IF @ > 0 THEN @ - 1 ELSE 0,
                 !.last.result = Null]
  ELSE IF save THEN Save(b) ELSE Submit(b)

\* bundle.run(memo, save)
Run_(save) ==
  /\ bundle.submits + bundle.saves < MaxSubmits
  /\ bundle' = RunBundle([Returned(bundle, "run", "") EXCEPT !.last.save = save],
                         save)
  /\ UNCHANGED <<lifecycle, calc, platform>>

RECURSIVE AddAll(_, _)
AddAll(b, msgs) ==
  IF msgs = << >> THEN b
  ELSE AddAll(Add(b, [kind |-> "exec", sender |-> BundleAddress, msg |-> Head(msgs)]),
              Tail(msgs))

\* bundle.wrap(cb, opts, save): await cb(this), where the callback executes
\* the messages given; return this.run(opts.memo, save)
Wrap(msgs, save) ==
  /\ Len(bundle.msgs) + Len(msgs) <= MaxMsgs
  /\ bundle.submits + bundle.saves < MaxSubmits
  /\ bundle' = RunBundle([Returned(AddAll(bundle, msgs), "wrap", "")
                            EXCEPT !.last.save = save, !.last.added = msgs],
                         save)
  /\ UNCHANGED <<lifecycle, calc, platform>>

\* assertMessages(): throws when this.msgs.length < 1, else returns this.msgs
AssertMessages(b) ==
  IF Len(b.msgs) < 1 THEN "EmptyBundle" ELSE "msgs"

\* bundle.assertMessages()
CallAssertMessages ==
  /\ bundle' = Returned(bundle, "assertMessages", AssertMessages(bundle))
  /\ UNCHANGED <<lifecycle, calc, platform>>

\* a Bundle just constructed on an agent
InitBundle ==
  /\ contract = [k \in Contracts |-> BlankContract]
  /\ tasks = << >>
  /\ state = [n \in Names |-> NoEntry]
  /\ saves = 0
  /\ got = NoAccess
  /\ bundle = NewBundle
  /\ calc = NoCalc
  /\ NoPlatform

NextBundle ==
  \/ BundleBundle
  \/ \E op \in Disallowed : DisallowedInBundle(op)
  \/ \E op \in Delegated : DelegatedToAgent(op)
  \/ \E msg \in Messages : Execute(msg) \/ BundleInstantiate(msg)
  \/ \E save \in BOOLEAN : Run_(save)
  \/ \E n \in 0..MaxMsgs : \E msgs \in [1..n -> Messages] : \E save \in BOOLEAN :
        Wrap(msgs, save)
  \/ CallAssertMessages

SpecBundle == InitBundle /\ [][NextBundle]_vars

(* ------------------------------- agent --------------------------------- *)

\* most blobs or instances handed to one uploadMany or instantiateMany
MaxMany == 3

\* the template's code hash, and what the agent's own instantiate may put
\* in the codeHash of the instance it returns
TemplateCodeHash == "hash of the template"
InstanceCodeHashes == {Undef, "hash from the chain"}

\* Object.entries(instances): the keys of a keyed input, or the indices of
\* an array as strings
KeysOf(n, keyed) ==
  [i \in 1..n |-> IF keyed THEN <<"x", "y", "z">>[i] ELSE <<"0", "1", "2">>[i]]

\* a call of the singular operation that has not been answered
PendingCall(i) == [arg |-> i, status |-> "pending", of |-> 0, codeHash |-> Undef]

\* all results, once every call is answered
AllResolved(calls) == \A i \in 1..Len(calls) : calls[i].status = "resolved"

\* agent.uploadMany(blobs): Promise.all(blobs.map(blob => this.upload(blob)))
UploadMany(n) ==
  /\ calc.op = "none"
  /\ calc' = [ op |-> "uploadMany", version |-> "client", keyed |-> FALSE,
               keys |-> KeysOf(n, FALSE), calls |-> [i \in 1..n |-> PendingCall(i)],
               promise |-> "pending", order |-> << >>,
               outputs |-> [i \in 1..n |-> PendingCall(0)] ]
  /\ UNCHANGED <<lifecycle, bundle, platform>>

\* agent.instantiateMany(...). client.ts takes an array of configs and maps
\* over it with configs.map, which a keyed input does not have: TypeError.
\* client-fields takes a template and instances, keyed or not, and maps over
\* Object.entries(instances)
InstantiateMany(version, n, keyed) ==
  /\ calc.op = "none"
  /\ calc' = [ op |-> "instantiateMany", version |-> version, keyed |-> keyed,
               keys |-> KeysOf(n, keyed),
               calls |-> IF version = "client" /\ keyed THEN << >>
                         ELSE [i \in 1..n |-> PendingCall(i)],
               promise |-> IF version = "client" /\ keyed THEN "TypeError"
                           ELSE "pending",
               order |-> << >>,
               outputs |-> [i \in 1..n |-> PendingCall(0)] ]
  /\ UNCHANGED <<lifecycle, bundle, platform>>

\* the value that the fan-out puts at the place of call i once it resolves:
\* client.ts's instantiateMany assigns codeHash: template.codeHash to it,
\* client-fields's and uploadMany pass it on as it is
Output(c, call) ==
  IF c.op = "instantiateMany" /\ c.version = "client"
  THEN [call EXCEPT !.codeHash = TemplateCodeHash]
  ELSE call

\* the values a resolved Promise.all delivers, placed by index (client.ts,
\* uploadMany) or by `outputs[key] = results[i]` (client-fields)
Outputs(c, calls) == [i \in 1..Len(calls) |-> Output(c, calls[i])]

\* the backend answers the i-th upload or instantiate, in any order; the
\* whole resolves when the last one is answered
Resolve(i, codeHash) ==
  /\ calc.op \in {"uploadMany", "instantiateMany"}
  /\ i \in 1..Len(calc.calls)
  /\ calc.calls[i].status = "pending"
  /\ calc.op = "uploadMany" => codeHash = Undef
  /\ LET calls == [calc.calls EXCEPT ![i] = [@ EXCEPT !.status = "resolved",
                                                    !.of = calc.calls[i].arg,
                                                    !.codeHash = codeHash]]
     IN  calc' = [calc EXCEPT !.calls = calls,
                              !.order = Append(@, i),
                              !.promise = IF @ = "pending" /\ AllResolved(calls)
                                          THEN "resolved" ELSE @,
                              !.outputs = IF calc.promise = "pending" /\ AllResolved(calls)
                                          THEN Outputs(calc, calls) ELSE @]
  /\ UNCHANGED <<lifecycle, bundle, platform>>

\* the backend rejects the i-th call: Promise.all rejects at the first one
RejectCall(i) ==
  /\ calc.op \in {"uploadMany", "instantiateMany"}
  /\ i \in 1..Len(calc.calls)
  /\ calc.calls[i].status = "pending"
  /\ calc' = [calc EXCEPT !.calls[i].status = "rejected",
                          !.order = Append(@, i),
                          !.promise = IF @ = "pending" THEN "rejected" ELSE @]
  /\ UNCHANGED <<lifecycle, bundle, platform>>

InitAgent ==
  /\ contract = [k \in Contracts |-> BlankContract]
  /\ tasks = << >>
  /\ state = [n \in Names |-> NoEntry]
  /\ saves = 0
  /\ got = NoAccess
  /\ bundle = NoBundle
  /\ calc = NoCalc
  /\ NoPlatform

NextAgent ==
  \/ \E n \in 1..MaxMany : UploadMany(n)
  \/ \E version \in {"client", "client-fields"} : \E n \in 1..MaxMany :
        \E keyed \in BOOLEAN : InstantiateMany(version, n, keyed)
  \/ \E i \in 1..MaxMany : \E codeHash \in InstanceCodeHashes : Resolve(i, codeHash)
  \/ \E i \in 1..MaxMany : RejectCall(i)

SpecAgent == InitAgent /\ [][NextAgent]_vars

(* -------------------------------- chain -------------------------------- *)

\* no contract, deployment, bundle or stand-alone function in play
Idle ==
  /\ contract = [k \in Contracts |-> BlankContract]
  /\ tasks = << >>
  /\ state = [n \in Names |-> NoEntry]
  /\ saves = 0
  /\ got = NoAccess
  /\ bundle = NoBundle
  /\ calc = NoCalc

\* enum ChainMode
ChainModes == {"Mainnet", "Testnet", "Devnet", "Mocknet"}

\* a URL object, and String(url): its href
Url(href) == [href |-> href]
String(url) == url.href

\* chain ids and urls passed to the constructor ("" and undefined are both
\* falsy), and the devnet handle that can be passed as options.node
ChainIds == {"", "id", "devnet-id"}
ChainUrls == {Undef, "url", "devnet-url"}
\* options.node and chain.node when there is none
NoNode == [present |-> FALSE, chainId |-> Undef, url |-> Url(Undef)]
DevnetHandle == [present |-> TRUE, chainId |-> "devnet-id", url |-> Url("devnet-url")]
ChainOptions == [url : ChainUrls, mode : ChainModes, node : {NoNode, DevnetHandle}]

\* a Chain constructor that lets the values passed win over the node's
NewChainAsPassed(id, options) ==
  [ id       |-> id,
    mode     |-> options.mode,
    url      |-> IF options.url \notin {Undef, ""} THEN options.url ELSE "",
    node     |-> IF options.node.present /\ options.mode = "Devnet"
                 THEN options.node ELSE NoNode,
    warnings |-> {} ]

\* new Chain(id, options), for an id that is not empty: url = '' unless
\* options.url; a node is kept only in Devnet mode, and then its url and
\* chainId replace the chain's, with a warning each time they differ
NewChain(id, options) ==
  LET url == IF options.url \notin {Undef, ""} THEN options.url ELSE ""
  IN  IF options.node.present
      THEN IF options.mode = "Devnet"
           THEN [ id       |-> IF id # options.node.chainId
                               THEN options.node.chainId ELSE id,
                  mode     |-> options.mode,
                  url      |-> IF url # String(options.node.url)
                               THEN String(options.node.url) ELSE url,
                  node     |-> options.node,
                  warnings |-> (IF url # String(options.node.url)
                                THEN {"UrlOverride"} ELSE {})
                               \cup (IF id # options.node.chainId
                                     THEN {"IdOverride"} ELSE {}) ]
           ELSE [ id |-> id, mode |-> options.mode, url |-> url, node |-> NoNode,
                  warnings |-> {"NodeNonDevnet"} ]
      ELSE [ id |-> id, mode |-> options.mode, url |-> url, node |-> NoNode,
             warnings |-> {} ]

\* agents that one chain hands out in a run
MaxAgents == 2

\* options of getAgent: a name or none, a mnemonic or none
AgentOpts == [name : {Undef, "Alice"}, mnemonic : {Undef, "words"}]

\* what the node's getGenesisAccount(name) resolves to
GenesisAccount(name) == [name |-> name, mnemonic |-> "genesis words of " \o name]

\* no getAgent call made yet
NoCall ==
  [ pc |-> "idle", options |-> [name |-> Undef, mnemonic |-> Undef],
    calls |-> << >>, error |-> Undef, created |-> FALSE,
    agent |-> [name |-> Undef, mnemonic |-> Undef] ]

\* highest block and number of polls of one wait
MaxHeight == 2
MaxPolls == 2

\* nobody waiting for the next block
NoWait ==
  [ of |-> "none", pc |-> "idle", startingHeight |-> 0, promise |-> "none",
    polls |-> 0, read |-> [ok |-> TRUE, height |-> 0] ]

\* before any Chain is constructed
BlankChain ==
  [ op |-> "none", error |-> Undef,
    given |-> [id |-> "", options |-> [url |-> Undef, mode |-> "Mainnet", node |-> NoNode]],
    self |-> [id |-> "", mode |-> "Mainnet", url |-> "", node |-> NoNode, warnings |-> {}],
    agents |-> 0, call |-> NoCall, height |-> 0, wait |-> NoWait ]

\* new Chain(id, options): throws NoChainId when the id is empty
Construct(id, options) ==
  /\ chain.op = "none"
  /\ chain' = IF id = ""
              THEN [chain EXCEPT !.op = "failed", !.error = "NoChainId",
                                 !.given = [id |-> id, options |-> options]]
              ELSE [chain EXCEPT !.op = "constructed",
                                 !.given = [id |-> id, options |-> options],
                                 !.self = NewChain(id, options)]
  /\ UNCHANGED <<lifecycle, bundle, calc, ensemble, script, devnet>>

\* getAgent from `options.chain = this` on: const agent = new _Agent(options)
CreateAgent(c, options) ==
  [c EXCEPT !.agents = @ + 1,
            !.call.pc = "resolved", !.call.created = TRUE,
            !.call.agent = options]

\* getAgent after `await this.node.respawn()`: a name without a mnemonic
\* throws NameOutsideDevnet when there is no node, else awaits the node's
\* getGenesisAccount(name)
AfterRespawn(c) ==
  LET options == c.call.options
  IN  IF options.mnemonic = Undef /\ options.name # Undef
      THEN IF ~c.self.node.present
           THEN [c EXCEPT !.call.pc = "rejected", !.call.error = "NameOutsideDevnet"]
           ELSE [c EXCEPT !.call.pc = "getGenesisAccount",
                          !.call.calls = Append(@, "getGenesisAccount")]
      ELSE CreateAgent(c, options)

\* getAgent that asks for the genesis account without respawning the node
GetAgentAsIs(options) ==
  /\ chain.op = "constructed"
  /\ chain.call.pc \in {"idle", "resolved", "rejected"}
  /\ chain.agents < MaxAgents
  /\ chain' = AfterRespawn([chain EXCEPT !.call = [NoCall EXCEPT !.options = options]])
  /\ UNCHANGED <<lifecycle, bundle, calc, ensemble, script, devnet>>

\* chain.getAgent(options), up to its first await:
\* if (this.node) await this.node.respawn()
GetAgent(options) ==
  /\ chain.op = "constructed"
  /\ chain.call.pc \in {"idle", "resolved", "rejected"}
  /\ chain.agents < MaxAgents
  /\ LET c == [chain EXCEPT !.call = [NoCall EXCEPT !.options = options]]
     IN  chain' = IF c.self.node.present
                  THEN [c EXCEPT !.call.pc = "respawn",
                                 !.call.calls = Append(@, "respawn")]
                  ELSE AfterRespawn(c)
  /\ UNCHANGED <<lifecycle, bundle, calc, ensemble, script, devnet>>

\* node.respawn() resolves
RespawnSucceeds ==
  /\ chain.call.pc = "respawn"
  /\ chain' = AfterRespawn(chain)
  /\ UNCHANGED <<lifecycle, bundle, calc, ensemble, script, devnet>>

\* node.respawn() rejects, and getAgent with it
RespawnFails ==
  /\ chain.call.pc = "respawn"
  /\ chain' = [chain EXCEPT !.call.pc = "rejected", !.call.error = "RespawnFailed"]
  /\ UNCHANGED <<lifecycle, bundle, calc, ensemble, script, devnet>>

\* node.getGenesisAccount(name) resolves:
\* options = { ...options, ...account }
GenesisAccountSucceeds ==
  /\ chain.call.pc = "getGenesisAccount"
  /\ chain' = CreateAgent(chain, GenesisAccount(chain.call.options.name))
  /\ UNCHANGED <<lifecycle, bundle, calc, ensemble, script, devnet>>

\* node.getGenesisAccount(name) rejects, and getAgent with it
GenesisAccountFails ==
  /\ chain.call.pc = "getGenesisAccount"
  /\ chain' = [chain EXCEPT !.call.pc = "rejected", !.call.error = "NoGenesisAccount"]
  /\ UNCHANGED <<lifecycle, bundle, calc, ensemble, script, devnet>>

\* the chain produces a block
NewBlock ==
  /\ chain.op = "constructed"
  /\ chain.height < MaxHeight
  /\ chain' = [chain EXCEPT !.height = @ + 1]
  /\ UNCHANGED <<lifecycle, bundle, calc, ensemble, script, devnet>>

\* `nextBlock` is read, of an Agent (client.ts) or of a Chain
\* (client-fields): a promise is returned and this.height is being read
NextBlock(of) ==
  /\ chain.op = "constructed"
  /\ chain.wait.pc \in {"idle", "stopped"}
  /\ chain' = [chain EXCEPT !.wait = [NoWait EXCEPT !.of = of, !.pc = "height",
                                                     !.promise = "pending"]]
  /\ UNCHANGED <<lifecycle, bundle, calc, ensemble, script, devnet>>

\* the first this.height resolves: startingHeight, and the loop starts
StartingHeight ==
  /\ chain.wait.pc = "height"
  /\ chain' = [chain EXCEPT !.wait.pc = "poll",
                            !.wait.startingHeight = chain.height,
                            !.wait.read = [ok |-> TRUE, height |-> chain.height]]
  /\ UNCHANGED <<lifecycle, bundle, calc, ensemble, script, devnet>>

\* the first this.height rejects. Agent.nextBlock calls this.height.then(...)
\* inside the executor of the promise it returns and nothing handles the
\* rejection: the promise stays pending. Chain.nextBlock returns
\* this.height.then(...), which rejects
StartingHeightFails ==
  /\ chain.wait.pc = "height"
  /\ chain' = [chain EXCEPT !.wait.pc = "stopped",
                            !.wait.read = [ok |-> FALSE, height |-> 0],
                            !.wait.promise = IF chain.wait.of = "Chain"
                                             THEN "rejected" ELSE @]
  /\ UNCHANGED <<lifecycle, bundle, calc, ensemble, script, devnet>>

\* one turn of the loop: 100 ms later this.height resolves;
\* if (height > startingHeight) resolve(height), and the loop goes on
Poll ==
  /\ chain.wait.pc = "poll"
  /\ chain.wait.polls < MaxPolls
  /\ chain' = [chain EXCEPT !.wait.polls = @ + 1,
                            !.wait.read = [ok |-> TRUE, height |-> chain.height],
                            !.wait.promise =
                               IF chain.height > chain.wait.startingHeight /\ @ = "pending"
                               THEN "resolved" ELSE @]
  /\ UNCHANGED <<lifecycle, bundle, calc, ensemble, script, devnet>>

\* one turn of the loop in which this.height rejects: catch (e) { reject(e) }
PollFails ==
  /\ chain.wait.pc = "poll"
  /\ chain.wait.polls < MaxPolls
  /\ chain' = [chain EXCEPT !.wait.pc = "stopped",
                            !.wait.polls = @ + 1,
                            !.wait.read = [ok |-> FALSE, height |-> 0],
                            !.wait.promise = IF @ = "pending" THEN "rejected" ELSE @]
  /\ UNCHANGED <<lifecycle, bundle, calc, ensemble, script, devnet>>

InitChain ==
  /\ Idle
  /\ chain = BlankChain
  /\ ensemble = NoEnsemble
  /\ script = NoScript
  /\ devnet = NoDevnet

NextChain ==
  \/ \E id \in ChainIds : \E options \in ChainOptions : Construct(id, options)
  \/ \E options \in AgentOpts : GetAgent(options)
  \/ RespawnSucceeds
  \/ RespawnFails
  \/ GenesisAccountSucceeds
  \/ GenesisAccountFails
  \/ NewBlock
  \/ \E of \in {"Agent", "Chain"} : NextBlock(of)
  \/ StartingHeight
  \/ StartingHeightFails
  \/ Poll
  \/ PollFails

SpecChain == InitChain /\ [][NextChain]_vars

(* ---------------------------- build script ----------------------------- *)

\* most crates named on one command line
MaxCrates == 2

\* git refs and crate names, character by character
HEAD == <<"H", "E", "A", "D">>
Refs == {HEAD, <<"v", "1">>, <<"f", "/", "x">>}
Crates == {<<"a">>, <<"b", "/", "c">>}

\* sanitize(x): x.replace(/\//g, "_")
Sanitize(x) == [i \in 1..Len(x) |-> IF x[i] = "/" THEN "_" ELSE x[i]]

\* resolve(outputDir, `${sanitize(crate)}@${sanitize(ref)}.wasm`), within
\* the output directory
Optimized(crate, ref) == Sanitize(crate) \o <<"@">> \o Sanitize(ref) \o <<".wasm">>

\* `${optimized}.sha256`
Checksum(optimized) == optimized \o <<".sha256">>

\* where the commands run: the directory the script is started in, the
\* subdirectory of it, and the subdirectory of the checkout in buildRoot
WorkingTree == "working tree"
WorkingTreeSubdir == "working tree/subdir"
CheckoutSubdir == "buildRoot/subdir"

\* the steps of phase1_prepareHistory
HistorySteps ==
  << "cp -rT gitRoot tmpGit", "strip worktree", "show-ref refs/heads/ref",
     "git clone --recursive -b ref", "git submodule update --init --recursive" >>

\* phase1_prepareHistory(): the copy of .git, the bare config, the branch
\* ref, the clone into buildRoot, the submodules, chdir into the checkout
PrepareHistory(s) ==
  [s EXCEPT !.prepared = HistorySteps, !.cwd = CheckoutSubdir]

\* phase1_prepareSource(): for HEAD, chdir(subdir); else the statement
\* `phase1_prepareHistory`, which names the function and does not call it
PrepareSource(s) ==
  IF s.ref = HEAD
  THEN [s EXCEPT !.cwd = WorkingTreeSubdir]
  ELSE s

\* the script is started as `phase1 <ref> <crates...>`
Phase1(ref, crates) ==
  /\ script.op = "none"
  /\ script' = [ op |-> "phase1", ref |-> ref, crates |-> crates, crate |-> 0,
                 cwd |-> WorkingTree, prepared |-> << >>, commands |-> << >>,
                 files |-> {}, exit |-> "none" ]
  /\ UNCHANGED <<lifecycle, bundle, calc, chain, ensemble, devnet>>

\* a failing command that is logged and passed over
ExitIgnored(s, command) ==
  [s EXCEPT !.commands = Append(@, [command |-> command, crate |-> s.crate,
                                   cwd |-> s.cwd, ok |-> FALSE])]

\* a command run by execSync exits with a failure: the exception is not
\* caught anywhere and ends phase 2 and, through run(phase2Command), phase 1
Exit(s, command) ==
  [s EXCEPT !.op = "exited", !.exit = "failed",
            !.commands = Append(@, [command |-> command, crate |-> s.crate,
                                    cwd |-> s.cwd, ok |-> FALSE])]

\* a command run by execSync succeeds
Ran(s, command) ==
  [s EXCEPT !.commands = Append(@, [command |-> command, crate |-> s.crate,
                                   cwd |-> s.cwd, ok |-> TRUE])]

\* phase 2 of the next crate, or the end of phase1_buildCrates
NextCrate(s) ==
  IF s.crate < Len(s.crates)
  THEN [s EXCEPT !.op = "cargo build", !.crate = @ + 1]
  ELSE [s EXCEPT !.op = "exited", !.exit = "ok"]

\* phase1_prepareContext(), phase1_prepareSource(), and the start of
\* phase1_buildCrates()
Prepare ==
  /\ script.op = "phase1"
  /\ script' = NextCrate(PrepareSource(Ran(script, "prepare")))
  /\ UNCHANGED <<lifecycle, bundle, calc, chain, ensemble, devnet>>

\* a command of phase1_prepareContext or `git --version` fails
PrepareFails ==
  /\ script.op = "phase1"
  /\ script' = Exit(script, "prepare")
  /\ UNCHANGED <<lifecycle, bundle, calc, chain, ensemble, devnet>>

\* phase2_buildCrate(): cargo build -p <crate> --release --target ...
CargoBuild ==
  /\ script.op = "cargo build"
  /\ script' = [Ran(script, "cargo build") EXCEPT !.op = "wasm-opt"]
  /\ UNCHANGED <<lifecycle, bundle, calc, chain, ensemble, devnet>>

CargoBuildFails ==
  /\ script.op = "cargo build"
  /\ script' = Exit(script, "cargo build")
  /\ UNCHANGED <<lifecycle, bundle, calc, chain, ensemble, devnet>>

\* phase2_optimizeBinary(): wasm-opt -g -Oz --strip-dwarf <compiled> -o <optimized>
WasmOpt ==
  /\ script.op = "wasm-opt"
  /\ script' = [Ran(script, "wasm-opt") EXCEPT
                  !.op = "sha256sum",
                  !.files = @ \cup {Optimized(script.crates[script.crate], script.ref)}]
  /\ UNCHANGED <<lifecycle, bundle, calc, chain, ensemble, devnet>>

WasmOptFails ==
  /\ script.op = "wasm-opt"
  /\ script' = Exit(script, "wasm-opt")
  /\ UNCHANGED <<lifecycle, bundle, calc, chain, ensemble, devnet>>

\* phase2_saveChecksum(): sha256sum -b <optimized> > <checksum>
SaveChecksum ==
  /\ script.op = "sha256sum"
  /\ script' = NextCrate(
       [Ran(script, "sha256sum") EXCEPT
          !.files = @ \cup {Checksum(Optimized(script.crates[script.crate], script.ref))}])
  /\ UNCHANGED <<lifecycle, bundle, calc, chain, ensemble, devnet>>

\* sha256sum fails: the shell has made the file it redirects into
SaveChecksumFails ==
  /\ script.op = "sha256sum"
  /\ script' = [Exit(script, "sha256sum") EXCEPT
                  !.files = @ \cup {Checksum(Optimized(script.crates[script.crate], script.ref))}]
  /\ UNCHANGED <<lifecycle, bundle, calc, chain, ensemble, devnet>>

InitScript ==
  /\ Idle
  /\ chain = NoChain
  /\ ensemble = NoEnsemble
  /\ script = NoScript
  /\ devnet = NoDevnet

NextScript ==
  \/ \E ref \in Refs : \E n \in 0..MaxCrates : \E crates \in [1..n -> Crates] :
        Phase1(ref, crates)
  \/ Prepare
  \/ PrepareFails
  \/ CargoBuild
  \/ CargoBuildFails
  \/ WasmOpt
  \/ WasmOptFails
  \/ SaveChecksum
  \/ SaveChecksumFails

SpecScript == InitScript /\ [][NextScript]_vars

\* crate names and git refs that phase 2 can be started with, character by
\* character
ArtifactCrates == {<<"a">>, <<"a", "-", "b">>, <<"a", "_", "b">>}
ArtifactRefs == {HEAD, <<"v", "1">>, <<"f", "/", "x">>, <<"f", "_", "x">>}

\* two builds, of any crate at any ref, not run yet
InitArtifacts ==
  /\ contract = [k \in Contracts |-> BlankContract]
  /\ tasks = << >>
  /\ state = [n \in Names |-> NoEntry]
  /\ saves = 0
  /\ got = NoAccess
  /\ bundle = NoBundle
  /\ NoPlatform
  /\ \E builds \in [1..2 -> [crate : ArtifactCrates, ref : ArtifactRefs]] :
       calc = [ op |-> "builds", builds |-> builds, optimized |-> << >> ]

\* phase 2 of each build names its artifact
NameArtifacts ==
  /\ calc.op = "builds"
  /\ calc' = [calc EXCEPT
       !.op = "named",
       !.optimized = [i \in 1..2 |->
                        Optimized(calc.builds[i].crate, calc.builds[i].ref)]]
  /\ UNCHANGED <<lifecycle, bundle, platform>>

NextArtifacts == NameArtifacts

SpecArtifacts == InitArtifacts /\ [][NextArtifacts]_vars

(* ------------------------------ ensemble ------------------------------- *)

\* build() calls made on one Ensemble
MaxBuilds == 2

\* this.contracts: the names, in the order of Object.entries, and the
\* crates they can be built from
ContractNames == <<"x", "y">>
CrateNames == {"a", "b"}

\* resolve(outputDir, `${crate}@HEAD.wasm`), within the output directory
BuildOutput(crate) == crate \o "@HEAD.wasm"

\* upload() calls made on one Ensemble, and the chains of the builders
\* they are made with
MaxUploads == 2
UploadChains == {"chain-1", "chain-2"}

\* the sha256 of an artifact, which is its code hash
CodeHashOf(artifact) == "sha256 of " \o artifact

\* no upload receipt
NoReceipt == [chainId |-> Undef, codeHash |-> Undef, codeId |-> 0]

\* an Ensemble whose build() has not been called
BlankEnsemble(contracts, files) ==
  [ op |-> "idle", contracts |-> contracts, files |-> files,
    parallel |-> FALSE, builds |-> 0, pulls |-> 0,
    status |-> [n \in DOMAIN contracts |-> "waiting"],
    compiled |-> << >>,
    artifacts |-> [n \in DOMAIN contracts |-> Undef],
    promise |-> "none",
    previous |-> [ promise |-> "none", compiled |-> << >>,
                   artifacts |-> [n \in DOMAIN contracts |-> Undef] ],
    store |-> {}, sent |-> [c \in UploadChains |-> 0],
    codes |-> [c \in UploadChains |-> 0], uploads |-> 0,
    up |-> [ pc |-> "idle", chainId |-> Undef, i |-> 0, cached |-> {},
             artifacts |-> [n \in DOMAIN contracts |-> Undef],
             receipts |-> [n \in DOMAIN contracts |-> NoReceipt] ] ]

\* build() that starts the builds without waiting for the image
BuildUnpulled(parallel) ==
  /\ ensemble.op = "idle"
  /\ ensemble.builds < MaxBuilds
  /\ ensemble' = [ensemble EXCEPT
                    !.op = "pulling", !.parallel = parallel,
                    !.builds = @ + 1, !.pulls = @ + 1,
                    !.status = [n \in DOMAIN @ |-> "building"],
                    !.compiled = ContractNames,
                    !.promise = "pending"]
  /\ UNCHANGED <<lifecycle, bundle, calc, chain, script, devnet>>

\* ensemble.build({ parallel }): await pulled(this.buildImage, this.docker)
Build_(parallel) ==
  /\ ensemble.op = "idle"
  /\ ensemble.builds < MaxBuilds
  /\ \A n \in DOMAIN ensemble.status : ensemble.status[n] # "building"
  /\ ensemble' = [ensemble EXCEPT
                    !.op = "pulling", !.parallel = parallel,
                    !.builds = @ + 1, !.pulls = @ + 1,
                    !.status = [n \in DOMAIN @ |-> "waiting"],
                    !.compiled = << >>,
                    !.artifacts = [n \in DOMAIN @ |-> Undef],
                    !.promise = "pending",
                    !.previous = [ promise |-> ensemble.promise,
                                   compiled |-> ensemble.compiled,
                                   artifacts |-> ensemble.artifacts ]]
  /\ UNCHANGED <<lifecycle, bundle, calc, chain, script, devnet>>

\* buildOne that hands every contract to the builder
BuildOneAnyway(e, name) ==
  [e EXCEPT !.status[name] = "building", !.compiled = Append(@, name)]

\* buildOne(ensembleName, contractName, crate): the existing file is
\* returned, or builder.build is called
BuildOne(e, name) ==
  LET buildOutput == BuildOutput(e.contracts[name])
  IN  IF buildOutput \in e.files
      THEN [e EXCEPT !.status[name] = "skipped", !.artifacts[name] = buildOutput]
      ELSE [e EXCEPT !.status[name] = "building", !.compiled = Append(@, name)]

\* buildInParallel(): every buildOne is started at once
RECURSIVE BuildInParallel(_, _)
BuildInParallel(e, i) ==
  IF i > Len(ContractNames) THEN e
  ELSE BuildInParallel(BuildOne(e, ContractNames[i]), i + 1)

\* buildInSeries(): the next buildOne is started when the one before has
\* returned, and none after one that failed
RECURSIVE BuildInSeries(_, _)
BuildInSeries(e, i) ==
  IF i > Len(ContractNames) THEN e
  ELSE IF e.status[ContractNames[i]] \in {"building", "failed"} THEN e
  ELSE IF e.status[ContractNames[i]] \in {"skipped", "built"}
       THEN BuildInSeries(e, i + 1)
  ELSE BuildInSeries(BuildOne(e, ContractNames[i]), i)

\* build() returns its artifacts when every buildOne has
Returns(e) ==
  IF e.promise = "pending"
     /\ \A n \in DOMAIN e.status : e.status[n] \in {"skipped", "built"}
  THEN [e EXCEPT !.promise = "resolved", !.op = "idle"]
  ELSE e

\* the image is there: the builds start
Pulled ==
  /\ ensemble.op = "pulling"
  /\ ensemble' = Returns(IF ensemble.parallel
                         THEN BuildInParallel([ensemble EXCEPT !.op = "building"], 1)
                         ELSE BuildInSeries([ensemble EXCEPT !.op = "building"], 1))
  /\ UNCHANGED <<lifecycle, bundle, calc, chain, script, devnet>>

\* the image cannot be pulled: build() rejects
PullFails ==
  /\ ensemble.op = "pulling"
  /\ ensemble' = [ensemble EXCEPT !.op = "idle", !.promise = "rejected"]
  /\ UNCHANGED <<lifecycle, bundle, calc, chain, script, devnet>>

\* builder.build resolves for one contract: its artifact is on disk
BuilderSucceeds(name) ==
  /\ ensemble.status[name] = "building"
  /\ LET buildOutput == BuildOutput(ensemble.contracts[name])
         e == [ensemble EXCEPT !.status[name] = "built",
                               !.files = @ \cup {buildOutput},
                               !.artifacts[name] = buildOutput]
     IN  ensemble' = Returns(IF e.parallel THEN e ELSE BuildInSeries(e, 1))
  /\ UNCHANGED <<lifecycle, bundle, calc, chain, script, devnet>>

\* builder.build rejects for one contract, and build() with it
BuilderFails(name) ==
  /\ ensemble.status[name] = "building"
  /\ ensemble' = [ensemble EXCEPT !.status[name] = "failed", !.op = "idle",
                                  !.promise = "rejected"]
  /\ UNCHANGED <<lifecycle, bundle, calc, chain, script, devnet>>

\* the receipts of the store for a code hash on a chain
ReceiptsOf(e, chainId, codeHash) ==
  {r \in e.store : r.chainId = chainId /\ r.codeHash = codeHash}

\* uploadCached that uploads whatever the store holds
UploadUncached(e, i) ==
  IF i > Len(ContractNames)
  THEN [e EXCEPT !.up.pc = "resolved", !.up.i = i]
  ELSE [e EXCEPT !.up.pc = "uploading", !.up.i = i,
            !.sent[e.up.chainId] = @ + 1]

\* the loop of upload() from the i-th contract on:
\* receipts[contract] = await builder.uploadCached(artifacts[contract]),
\* which returns the receipt stored for the code hash on the builder's
\* chain, or else uploads through the agent
RECURSIVE UploadCached(_, _)
UploadCached(e, i) ==
  IF i > Len(ContractNames)
  THEN [e EXCEPT !.up.pc = "resolved", !.up.i = i]
  ELSE LET name  == ContractNames[i]
           found == ReceiptsOf(e, e.up.chainId, CodeHashOf(e.up.artifacts[name]))
       IN  IF found # {}
           THEN UploadCached([e EXCEPT !.up.receipts[name] = CHOOSE r \in found : TRUE,
                                       !.up.cached = @ \cup {name}],
                             i + 1)
           ELSE [e EXCEPT !.up.pc = "uploading", !.up.i = i,
                          !.sent[e.up.chainId] = @ + 1]

\* ensemble.upload({ builder, artifacts }) with the artifacts of the build
\* that has just resolved and a builder on the given chain
Upload_(chainId) ==
  /\ ensemble.op = "idle" /\ ensemble.promise = "resolved"
  /\ ensemble.up.pc # "uploading"
  /\ ensemble.uploads < MaxUploads
  /\ ensemble' = UploadCached(
        [ensemble EXCEPT !.uploads = @ + 1,
                         !.up = [ pc |-> "running", chainId |-> chainId, i |-> 1,
                                  cached |-> {}, artifacts |-> ensemble.artifacts,
                                  receipts |-> [n \in DOMAIN ensemble.artifacts |-> NoReceipt] ]],
        1)
  /\ UNCHANGED <<lifecycle, bundle, calc, chain, script, devnet>>

\* the agent's upload resolves with the next code id of the chain: the
\* receipt is stored and the loop goes on
AgentUploadSucceeds ==
  /\ ensemble.up.pc = "uploading"
  /\ LET name    == ContractNames[ensemble.up.i]
         chainId == ensemble.up.chainId
         receipt == [ chainId  |-> chainId,
                      codeHash |-> CodeHashOf(ensemble.up.artifacts[name]),
                      codeId   |-> ensemble.codes[chainId] + 1 ]
     IN  ensemble' = UploadCached(
           [ensemble EXCEPT !.codes[chainId] = @ + 1,
                            !.store = @ \cup {receipt},
                            !.up.receipts[name] = receipt],
           ensemble.up.i + 1)
  /\ UNCHANGED <<lifecycle, bundle, calc, chain, script, devnet>>

\* the agent's upload rejects, and upload() with it: no receipt
AgentUploadFails ==
  /\ ensemble.up.pc = "uploading"
  /\ ensemble' = [ensemble EXCEPT !.up.pc = "rejected"]
  /\ UNCHANGED <<lifecycle, bundle, calc, chain, script, devnet>>

\* an Ensemble of two contracts, and the artifacts that earlier runs left
InitEnsemble ==
  /\ Idle
  /\ chain = NoChain
  /\ script = NoScript
  /\ devnet = NoDevnet
  /\ \E crates \in [1..Len(ContractNames) -> CrateNames] :
        \E files \in SUBSET {BuildOutput(c) : c \in CrateNames} :
           ensemble = BlankEnsemble(
              [n \in {ContractNames[i] : i \in 1..Len(ContractNames)} |->
                 crates[CHOOSE i \in 1..Len(ContractNames) : ContractNames[i] = n]],
              files)

NextEnsemble ==
  \/ \E parallel \in BOOLEAN : Build_(parallel)
  \/ Pulled
  \/ PullFails
  \/ \E i \in 1..Len(ContractNames) :
        BuilderSucceeds(ContractNames[i]) \/ BuilderFails(ContractNames[i])
  \/ \E chainId \in UploadChains : Upload_(chainId)
  \/ AgentUploadSucceeds
  \/ AgentUploadFails

SpecEnsemble == InitEnsemble /\ [][NextEnsemble]_vars

(* ------------------------------- devnet -------------------------------- *)

\* Devnet objects pointed at one state directory, and calls made on them
NDevnets == 2
MaxDevnetCalls == 3

\* chain ids and ports of the options; a port left out becomes 1317 for
\* portMode 'lcp' and 9091 otherwise
DevnetChainIds == {Undef, "fadroma-devnet", "other"}
\* options.port when it is left out
NoPort == -1
DevnetPorts == {NoPort, 1317, 5000}
PortModes == {"lcp", "grpcWeb"}

\* JSON text of a number and the number of a JSON text
NumberText == [n \in {1317, 5000, 9091} |->
                 IF n = 1317 THEN "1317" ELSE IF n = 5000 THEN "5000" ELSE "9091"]
TextNumber(text) == CHOOSE n \in DOMAIN NumberText : NumberText[n] = text

\* nodeState.save(data): the text of devnet.json
Stringify(data) == <<"chainId", data.chainId, "port", NumberText[data.port]>>

\* nodeState.load(): the data of a devnet.json that parses
Parse(text) == [chainId |-> text[2], port |-> TextNumber(text[4])]

\* devnet.json: missing, text that does not parse, or the text saved
NoFile == <<"missing">>
Garbage == <<"garbage">>

\* no Devnet constructed
\* (running: the node's process is up; term: where a terminate() call is)
NoNodes ==
  [i \in 1..NDevnets |-> [alive |-> FALSE, chainId |-> Undef, port |-> 0,
                          running |-> FALSE, term |-> "idle"]]

\* the result of the last call
NoResult ==
  [ op |-> "none", node |-> 0, returned |-> "none", warnings |-> {},
    data |-> [chainId |-> Undef, port |-> 0] ]

\* new Devnet({ chainId, port, portMode, stateRoot }):
\* this.chainId = chainId ?? 'fadroma-devnet';
\* this.port = port ?? ((this.portMode === 'lcp') ? 1317 : 9091)
NewDevnet(i, chainId, port, portMode) ==
  /\ ~devnet.nodes[i].alive
  /\ devnet' = [devnet EXCEPT
       !.nodes[i] = [ alive   |-> TRUE,
                      chainId |-> IF chainId # Undef THEN chainId ELSE "fadroma-devnet",
                      port    |-> IF port # NoPort THEN port
                                  ELSE IF portMode = "lcp" THEN 1317 ELSE 9091,
                      running |-> FALSE,
                      term    |-> "idle" ],
       !.last = [NoResult EXCEPT !.op = "new", !.node = i]]
  /\ UNCHANGED <<lifecycle, bundle, calc, chain, ensemble, script>>

\* devnet.save(): this.nodeState.save({ chainId: this.chainId, port: this.port })
SaveDevnet(i) ==
  /\ devnet.nodes[i].alive
  /\ devnet.calls < MaxDevnetCalls
  /\ devnet' = [devnet EXCEPT
       !.calls = @ + 1,
       !.file = Stringify([chainId |-> devnet.nodes[i].chainId,
                           port |-> devnet.nodes[i].port]),
       !.saved = [chainId |-> devnet.nodes[i].chainId, port |-> devnet.nodes[i].port],
       !.last = [NoResult EXCEPT !.op = "save", !.node = i, !.returned = "this"]]
  /\ UNCHANGED <<lifecycle, bundle, calc, chain, ensemble, script>>

\* this.log.devnet.loadingState(chainId, this.chainId): a warning is
\* written and nothing is thrown
LoadingState(warnings) == warnings \cup {"loadingState"}

\* load() that refuses the state of another chain id
LoadStrict(d, i) ==
  IF d.file = NoFile
  THEN [d EXCEPT !.last = [NoResult EXCEPT !.op = "load", !.node = i,
                                           !.returned = "null"]]
  ELSE IF d.file = Garbage \/ Parse(d.file).chainId # d.nodes[i].chainId
  THEN [d EXCEPT !.file = NoFile,
                 !.last = [NoResult EXCEPT !.op = "load", !.node = i,
                                           !.returned = "throws"]]
  ELSE [d EXCEPT !.nodes[i].port = Parse(d.file).port,
                 !.last = [NoResult EXCEPT !.op = "load", !.node = i,
                                           !.returned = "data",
                                           !.data = Parse(d.file)]]

\* this.log.devnet.loadingRejected(path), this.log.devnet.loadingFailed(path):
\* a line is written and nothing is thrown
LoadingRejected(warnings) == warnings \cup {"loadingRejected"}
LoadingFailed(warnings) == warnings \cup {"loadingFailed"}

\* load() that takes a file it cannot read for no state
LoadLenient(d, i) ==
  IF d.file \in {NoFile, Garbage}
  THEN [d EXCEPT !.last = [NoResult EXCEPT !.op = "load", !.node = i,
                                           !.warnings = LoadingRejected(@),
                                           !.returned = "null"]]
  ELSE LET data == Parse(d.file)
       IN  [d EXCEPT !.nodes[i].port = data.port,
                     !.last = [NoResult EXCEPT
                                 !.op = "load", !.node = i, !.returned = "data",
                                 !.warnings = IF d.nodes[i].chainId # data.chainId
                                              THEN LoadingState(@) ELSE @,
                                 !.data = data]]

\* devnet.load(): null when there is no state; when the file does not parse,
\* the state directory is deleted and the error thrown; else a warning if
\* the chain ids differ, this.port = port, and the data is returned
Load(d, i) ==
  IF d.file = NoFile
  THEN [d EXCEPT !.last = [NoResult EXCEPT !.op = "load", !.node = i,
                                           !.warnings = LoadingRejected(@),
                                           !.returned = "null"]]
  ELSE IF d.file = Garbage
  THEN [d EXCEPT !.file = NoFile,
                 !.last = [NoResult EXCEPT !.op = "load", !.node = i,
                                           !.warnings = LoadingFailed(@),
                                           !.returned = "throws"]]
  ELSE LET data == Parse(d.file)
       IN  [d EXCEPT !.nodes[i].port = data.port,
                     !.last = [NoResult EXCEPT
                                 !.op = "load", !.node = i, !.returned = "data",
                                 !.warnings = IF d.nodes[i].chainId # data.chainId
                                              THEN LoadingState(@) ELSE @,
                                 !.data = data]]

\* await devnet.load()
LoadDevnet(i) ==
  /\ devnet.nodes[i].alive
  /\ devnet.calls < MaxDevnetCalls
  /\ devnet' = [Load(devnet, i) EXCEPT !.calls = @ + 1]
  /\ UNCHANGED <<lifecycle, bundle, calc, chain, ensemble, script>>

\* whether a terminate() of the node is under way
Terminating(d, i) == d.nodes[i].term \in {"killing", "erasing"}

\* abstract spawn(): the node is started
Spawn(d, i) == [d EXCEPT !.nodes[i].running = TRUE]

\* abstract kill(), resolved: the node is stopped
Kill(d, i) == [d EXCEPT !.nodes[i].running = FALSE]

\* abstract erase(), resolved: the state directory is deleted
Erase(d, i) == [d EXCEPT !.file = NoFile]

\* terminate() that calls erase() without awaiting kill()
TerminateUnawaited(d, i) ==
  [d EXCEPT !.nodes[i].term = "erasing",
            !.last = [NoResult EXCEPT !.op = "terminate", !.node = i]]

\* terminate(): await this.kill() is reached, kill() is pending
Terminate(d, i) ==
  [d EXCEPT !.nodes[i].term = "killing",
            !.last = [NoResult EXCEPT !.op = "terminate", !.node = i]]

\* await devnet.spawn(), by a caller that has no terminate() pending
SpawnDevnet(i) ==
  /\ devnet.nodes[i].alive /\ ~devnet.nodes[i].running
  /\ ~Terminating(devnet, i)
  /\ devnet.calls < MaxDevnetCalls
  /\ devnet' = [Spawn(devnet, i) EXCEPT
                  !.calls = @ + 1,
                  !.last = [NoResult EXCEPT !.op = "spawn", !.node = i,
                                            !.returned = "this"]]
  /\ UNCHANGED <<lifecycle, bundle, calc, chain, ensemble, script>>

\* devnet.terminate() is called
TerminateDevnet(i) ==
  /\ devnet.nodes[i].alive
  /\ ~Terminating(devnet, i)
  /\ devnet.calls < MaxDevnetCalls
  /\ devnet' = [Terminate(devnet, i) EXCEPT !.calls = @ + 1]
  /\ UNCHANGED <<lifecycle, bundle, calc, chain, ensemble, script>>

\* kill() resolves: await this.erase() is reached, erase() is pending
KillSucceeds(i) ==
  /\ devnet.nodes[i].term = "killing"
  /\ devnet' = [Kill(devnet, i) EXCEPT
                  !.nodes[i].term = "erasing",
                  !.last = [NoResult EXCEPT !.op = "kill", !.node = i]]
  /\ UNCHANGED <<lifecycle, bundle, calc, chain, ensemble, script>>

\* kill() rejects: terminate() rejects, erase() is not called
KillFails(i) ==
  /\ devnet.nodes[i].term = "killing"
  /\ devnet' = [devnet EXCEPT
                  !.nodes[i].term = "idle",
                  !.last = [NoResult EXCEPT !.op = "kill", !.node = i,
                                            !.returned = "throws"]]
  /\ UNCHANGED <<lifecycle, bundle, calc, chain, ensemble, script>>

\* erase() resolves: terminate() returns this
EraseSucceeds(i) ==
  /\ devnet.nodes[i].term = "erasing"
  /\ devnet' = [Erase(devnet, i) EXCEPT
                  !.nodes[i].term = "idle",
                  !.last = [NoResult EXCEPT !.op = "erase", !.node = i,
                                            !.returned = "this"]]
  /\ UNCHANGED <<lifecycle, bundle, calc, chain, ensemble, script>>

\* erase() rejects: terminate() rejects
EraseFails(i) ==
  /\ devnet.nodes[i].term = "erasing"
  /\ devnet' = [devnet EXCEPT
                  !.nodes[i].term = "idle",
                  !.last = [NoResult EXCEPT !.op = "erase", !.node = i,
                                            !.returned = "throws"]]
  /\ UNCHANGED <<lifecycle, bundle, calc, chain, ensemble, script>>

\* something else writes devnet.json
Damage ==
  /\ devnet.file \notin {NoFile, Garbage}
  /\ devnet' = [devnet EXCEPT !.file = Garbage,
                              !.last = [NoResult EXCEPT !.op = "damage"]]
  /\ UNCHANGED <<lifecycle, bundle, calc, chain, ensemble, script>>

InitDevnet ==
  /\ Idle
  /\ chain = NoChain
  /\ ensemble = NoEnsemble
  /\ script = NoScript
  /\ devnet = [ op |-> "devnet", nodes |-> NoNodes, file |-> NoFile,
                saved |-> [chainId |-> Undef, port |-> 0],
                calls |-> 0, last |-> NoResult ]

NextDevnet ==
  \/ \E i \in 1..NDevnets : \E chainId \in DevnetChainIds :
        \E port \in DevnetPorts : \E portMode \in PortModes :
           NewDevnet(i, chainId, port, portMode)
  \/ \E i \in 1..NDevnets : SaveDevnet(i) \/ LoadDevnet(i)
  \/ Damage

SpecDevnet == InitDevnet /\ [][NextDevnet]_vars

\* devnets constructed without options, which are then saved, spawned and
\* terminated
InitTerminate ==
  /\ Idle
  /\ chain = NoChain
  /\ ensemble = NoEnsemble
  /\ script = NoScript
  /\ devnet = [ op |-> "devnet",
                nodes |-> [i \in 1..NDevnets |->
                             [ alive |-> TRUE, chainId |-> "fadroma-devnet",
                               port |-> 9091, running |-> FALSE,
                               term |-> "idle" ]],
                file |-> NoFile,
                saved |-> [chainId |-> Undef, port |-> 0],
                calls |-> 0, last |-> NoResult ]

NextTerminate ==
  \/ \E i \in 1..NDevnets : SaveDevnet(i)
  \/ \E i \in 1..NDevnets : SpawnDevnet(i) \/ TerminateDevnet(i)
  \/ \E i \in 1..NDevnets : KillSucceeds(i) \/ KillFails(i)
  \/ \E i \in 1..NDevnets : EraseSucceeds(i) \/ EraseFails(i)

SpecTerminate == InitTerminate /\ [][NextTerminate]_vars

(* ------------------------------- mocknet ------------------------------- *)

\* most uploads, instances, and handle calls on one Mocknet
MaxCodes == 2
MaxInstances == 2
MaxHandles == 2

\* chain.id of a Mocknet, the example contracts, and the values they are
\* given
MocknetId == "Mocknet"
Blobs == {"Echo", "KV"}
Values == {"foo", "bar"}

\* the key the KV contract keeps its value under, and a key that is not in
\* the store
Keys == {"value"}
Absent == "absent"

\* String(codeId) and Number(template.codeId)
CodeIdText(k) == ToString(k)
CodeIdNumber(text) == CHOOSE k \in 0..(MaxCodes + 2) : ToString(k) = text

\* codeHash = sha256(bytes)
Sha256(blob) == <<"sha256", blob>>

\* no template returned
NoTemplate == [chainId |-> Undef, codeId |-> Undef, codeHash |-> <<>>]

\* the result of the last call on the mocknet
NoReply ==
  [ op |-> "none", instance |-> 0, arg |-> Undef, returned |-> "none",
    template |-> NoTemplate ]

\* new Mocknet(): no code, no instances.  Besides: the templates returned
\* by upload, what each instance was last told to write, and the number of
\* handle calls
NewMocknet ==
  [ op |-> "mocknet", id |-> MocknetId, codeId |-> 0, codes |-> << >>,
    templates |-> << >>, instances |-> << >>, db |-> << >>,
    written |-> << >>, handles |-> 0, last |-> NoReply ]

\* upload(bytes) that gives every blob the first code id
UploadAsFirst(c, blob) ==
  LET template == [chainId |-> c.id, codeId |-> CodeIdText(1),
                   codeHash |-> Sha256(blob)]
  IN  [c EXCEPT !.codeId = 1,
                !.codes = Append(@, blob),
                !.templates = Append(@, template),
                !.last = [NoReply EXCEPT !.op = "upload", !.arg = blob,
                                         !.returned = "template",
                                         !.template = template]]

\* upload(bytes): stores the blob under the next code id and returns
\* { chainId, codeId, codeHash }
MocknetUpload(c, blob) ==
  LET codeId   == c.codeId + 1
      template == [chainId |-> c.id, codeId |-> CodeIdText(codeId),
                   codeHash |-> Sha256(blob)]
  IN  [c EXCEPT !.codeId = codeId,
                !.codes = Append(@, blob),
                !.templates = Append(@, template),
                !.last = [NoReply EXCEPT !.op = "upload", !.arg = blob,
                                         !.returned = "template",
                                         !.template = template]]

\* the code ids under which something was uploaded
Uploaded(c) == {CodeIdText(k) : k \in 1..Len(c.codes)}

\* db_write where all instances share one store
DbWriteShared(db, i, key, value) ==
  [j \in DOMAIN db |-> [db[j] EXCEPT ![key] = value]]

\* db_read(key), db_write(key, value), db_remove(key) of instance i
DbRead(db, i, key) == db[i][key]
DbWrite(db, i, key, value) == [db EXCEPT ![i][key] = value]
DbRemove(db, i, key) == [db EXCEPT ![i][key] = Absent]

\* the example contracts: KV keeps the value it is given by init and by
\* { set }, forgets it on "del" and answers "get" with it; Echo keeps
\* nothing
ContractInit(blob, db, i, value) ==
  IF blob = "KV" THEN DbWrite(db, i, "value", value) ELSE db
ContractHandle(blob, db, i, msg) ==
  IF blob # "KV" THEN db
  ELSE IF msg.op = "set" THEN DbWrite(db, i, "value", msg.value)
  ELSE DbRemove(db, i, "value")
ContractQuery(blob, db, i) ==
  IF blob # "KV" THEN "echo"
  ELSE IF DbRead(db, i, "value") = Absent THEN "Err"
  ELSE DbRead(db, i, "value")

\* the messages of handle
HandleMsgs == [op : {"set"}, value : Values] \cup {[op |-> "del", value |-> Absent]}

\* agent.upload(blob)
MockUpload(blob) ==
  /\ chain.codeId < MaxCodes
  /\ chain' = MocknetUpload(chain, blob)
  /\ UNCHANGED <<lifecycle, bundle, calc, ensemble, script, devnet>>

\* agent.instantiate({ chainId, codeId }, label, { value }): rejected for a
\* code id nothing was uploaded under; else a new instance with a store of
\* its own, and the contract's init
MockInstantiate(codeId, value) ==
  /\ Len(chain.instances) < MaxInstances
  /\ chain' =
       IF codeId \notin Uploaded(chain)
       THEN [chain EXCEPT !.last = [NoReply EXCEPT !.op = "instantiate",
                                                   !.arg = codeId,
                                                   !.returned = "rejects"]]
       ELSE LET i    == Len(chain.instances) + 1
                blob == chain.codes[CodeIdNumber(codeId)]
                db   == Append(chain.db, [k \in Keys |-> Absent])
            IN  [chain EXCEPT
                   !.instances = Append(@, [codeId |-> codeId, blob |-> blob]),
                   !.db = ContractInit(blob, db, i, value),
                   !.written = Append(@, IF blob = "KV" THEN value ELSE Absent),
                   !.last = [NoReply EXCEPT !.op = "instantiate", !.instance = i,
                                            !.arg = codeId,
                                            !.returned = "instance"]]
  /\ UNCHANGED <<lifecycle, bundle, calc, ensemble, script, devnet>>

\* client.execute(msg) on instance i
MockHandle(i, msg) ==
  /\ i \in 1..Len(chain.instances)
  /\ chain.handles < MaxHandles
  /\ chain' = [chain EXCEPT
       !.handles = @ + 1,
       !.db = ContractHandle(chain.instances[i].blob, @, i, msg),
       !.written[i] = IF chain.instances[i].blob # "KV" THEN @ ELSE msg.value,
       !.last = [NoReply EXCEPT !.op = "handle", !.instance = i,
                                !.arg = msg.op, !.returned = "Ok"]]
  /\ UNCHANGED <<lifecycle, bundle, calc, ensemble, script, devnet>>

\* client.query("get") on instance i
MockQuery(i) ==
  /\ i \in 1..Len(chain.instances)
  /\ chain' = [chain EXCEPT
       !.last = [NoReply EXCEPT
                   !.op = "query", !.instance = i, !.arg = "get",
                   !.returned = ContractQuery(chain.instances[i].blob,
                                              chain.db, i)]]
  /\ UNCHANGED <<lifecycle, bundle, calc, ensemble, script, devnet>>

InitMocknet ==
  /\ Idle
  /\ chain = NewMocknet
  /\ ensemble = NoEnsemble
  /\ script = NoScript
  /\ devnet = NoDevnet

NextMocknet ==
  \/ \E blob \in Blobs : MockUpload(blob)
  \/ \E k \in 1..(MaxCodes + 1) : \E value \in Values :
        MockInstantiate(CodeIdText(k), value)
  \/ \E i \in 1..MaxInstances : \E msg \in HandleMsgs : MockHandle(i, msg)
  \/ \E i \in 1..MaxInstances : MockQuery(i)

SpecMocknet == InitMocknet /\ [][NextMocknet]_vars

(* ------------------------------ properties ----------------------------- *)

\* what a backend can reject with, and what deployContract itself throws
\* before it awaits anything
BackendErrors == {"BuildFailed", "UploadFailed", "InitFailed"}
ConfigErrors == {"NoAgent", "NoName", "NoInitLabel", "NoInitMessage"}

TasksOf(kind, k) ==
  {t \in DOMAIN tasks : tasks[t].kind = kind /\ tasks[t].c = k}

\* the fields that mark the lifecycle's progress
LifecycleFields == {"artifact", "codeHash", "chainId", "codeId", "address"}

\* C1: while codeId (address) is unset, every access to `uploaded`
\* (`deployed`) gets the one task that the first access created: the
\* property, once redefined, keeps its task; an access returns that task;
\* and an access that finds the task there creates no task and so makes no
\* further upload (Agent.instantiate) call.
C1_Step ==
  \A k \in Contracts :
    /\ contract[k].uploading # 0 => contract'[k].uploading = contract[k].uploading
    /\ contract[k].deploying # 0 => contract'[k].deploying = contract[k].deploying
    /\ (got' # got /\ got'.c = k /\ got'.op = "uploaded" /\ ~got'.had) =>
          /\ got'.ret # 0
          /\ got'.ret = contract'[k].uploading
          /\ tasks'[got'.ret].kind = "upload" /\ tasks'[got'.ret].c = k
          /\ contract[k].uploading # 0 => tasks' = tasks
    /\ (got' # got /\ got'.c = k /\ got'.op = "deployed" /\ ~got'.had) =>
          /\ got'.ret # 0
          /\ got'.ret = contract'[k].deploying
          /\ tasks'[got'.ret].kind = "deploy" /\ tasks'[got'.ret].c = k
          /\ contract[k].deploying # 0 => tasks' = tasks

C2_BuildOnce ==
  \A k \in Contracts :
    Cardinality({t \in TasksOf("build", k) : tasks[t].pc = "building"}) <= 1

\* C3: after a backend failure of the upload or instantiate stage the next
\* access to `uploaded` or `deployed` makes a fresh attempt: it never
\* returns a task that had already failed with the backend's error.
C3_FreshAttempt ==
  (got.op \in {"uploaded", "deployed"} /\ got.ret # 0 /\ got.pc = "rejected")
    => tasks[got.ret].err \notin BackendErrors

\* C4: a stage whose terminal field is present is skipped: with the artifact
\* (codeId, address) set, `compiled` (`uploaded`, `deployed`) does not
\* return a failed task, and `deployed` returns the client of the contract.
C4_SkipWhenPresent ==
  (got.op \in {"compiled", "uploaded", "deployed"} /\ got.had)
    => got.pc # "rejected"

\* C5: the stages of one deploy are ordered: the upload call is made only
\* after the build that uploadContract awaited has resolved, the
\* Agent.instantiate call only after the upload that deployContract awaited
\* has resolved, and never while codeId is unset.
C5_StagesOrdered ==
  \A t \in DOMAIN tasks :
    /\ (tasks[t].kind = "upload" /\ tasks[t].called) =>
          (tasks[t].waits # 0 =>
             /\ tasks[tasks[t].waits].kind = "build"
             /\ tasks[tasks[t].waits].pc = "resolved")
    /\ (tasks[t].kind = "deploy" /\ tasks[t].called) =>
          /\ IsSet(contract[tasks[t].c].codeId)
          /\ tasks[t].waits # 0 =>
               /\ tasks[tasks[t].waits].kind = "upload"
               /\ tasks[tasks[t].waits].pc = "resolved"

\* a deploy that went through build, upload and instantiate
C5_Witness ==
  \E t \in DOMAIN tasks :
    /\ tasks[t].kind = "deploy" /\ tasks[t].called
    /\ tasks[t].waits # 0
    /\ tasks[tasks[t].waits].called
    /\ tasks[tasks[t].waits].waits # 0
    /\ tasks[tasks[tasks[t].waits].waits].called

C7_Step ==
  \A t \in DOMAIN tasks' :
    /\ (tasks'[t].waits # 0 /\ tasks'[tasks'[t].waits].pc = "rejected") =>
          /\ tasks'[t].pc = "rejected"
          /\ tasks'[t].err = tasks'[tasks'[t].waits].err
    /\ ( /\ tasks'[t].kind = "deploy" /\ tasks'[t].pc = "rejected"
         /\ tasks'[t].err \in BackendErrors
         /\ (t \in DOMAIN tasks => tasks[t].pc # "rejected") ) =>
          /\ state' = state
          /\ saves' = saves
          /\ contract'[tasks'[t].c].address = contract[tasks'[t].c].address

C7_FailedDeploy == [][C7_Step]_vars

\* the deploy of a contract of the deployment uploaded the code and then
\* failed in Agent.instantiate; nothing is in the deployment
C7_Witness ==
  /\ IsSet(contract[1].context)
  /\ \E t \in DOMAIN tasks :
       /\ tasks[t].kind = "deploy" /\ tasks[t].pc = "rejected"
       /\ tasks[t].err = "InitFailed"
       /\ tasks[t].waits # 0
  /\ ~Has(state, contract[1].id) /\ saves = 0
  /\ IsSet(contract[1].codeId) /\ Unset(contract[1].address)

\* C8: artifact, codeHash, chainId, codeId and address, once set, are never
\* unset by a step, also when a backend's result leaves the field out or
\* carries undefined in it.
C8_Step ==
  \A k \in Contracts : \A f \in LifecycleFields :
    IsSet(contract[k][f]) => IsSet(contract'[k][f])

C9_GetOrCreate ==
  got.op = "contract" =>
    IF got.had
    THEN got.what = "contract"
    ELSE /\ got.what = "contract"
         /\ Prefix(contract[got.c]) = DeploymentName
         /\ contract[got.c].agent = DeploymentAgent
         /\ Has(state, contract[got.c].id)

\* the Agent.instantiate calls made for a name of the deployment
Calls(cs, ts, n) ==
  {t \in DOMAIN ts :
     /\ ts[t].kind = "deploy" /\ ts[t].called
     /\ IsSet(cs[ts[t].c].context) /\ cs[ts[t].c].id = n}

\* a contract has been instantiated under the name
Instantiated(n) ==
  \E t \in Calls(contract, tasks, n) : tasks[t].pc = "resolved"

\* C10: once a contract has been instantiated under a name of the
\* deployment, no step (Deployment.contract, an invocation of a contract,
\* `deployed`, many()) makes another Agent.instantiate call for that name.
C10_Step ==
  \A n \in Names :
    Instantiated(n) => Calls(contract', tasks', n) = Calls(contract, tasks, n)

C10_InstantiateOnce == [][C10_Step]_vars

C12_RoundTrip ==
  /\ calc.op \in {"written", "parsed"} =>
        calc.label = WriteLabelChars(calc.prefix, calc.name, calc.suffix)
  /\ calc.op = "parsed" =>
        calc.parsed = [prefix |-> calc.prefix, name |-> calc.name,
                       suffix |-> calc.suffix]

\* C13: the contracts that many() makes from a template share the
\* template's artifact, codeHash and codeId, and no build or upload call is
\* made for them: the template is built and uploaded once, only the
\* instantiations are per entry.
C13_ManySharesTemplate ==
  \A j \in Contracts :
    (contract[j].alive /\ contract[j].from # 0) =>
       /\ \A f \in {"artifact", "codeHash", "codeId"} :
             IsSet(contract[contract[j].from][f]) =>
                contract[j][f] = contract[contract[j].from][f]
       /\ \A t \in TasksOf("build", j) \cup TasksOf("upload", j) : ~tasks[t].called

C15_MatchesAllKeys ==
  calc.op = "matched" =>
    (calc.result <=>
       \A key \in DOMAIN calc.predicate : calc.self[key] = calc.predicate[key])


\* what a call can change of a bundle: its log, its depth, and what reached
\* the wrapped agent or the chain
Effects(b) == <<b.msgs, b.id, b.depth, b.sent, b.submits, b.saves, b.agentCalls>>

\* C16: in every state of a bundle, query, upload, uploadMany, getBalance,
\* send and sendMany reject, and reading height, nextBlock or balance throws,
\* with NotInBundle; none of them appends a message or reaches the wrapped agent
C16_Step ==
  (bundle' # bundle /\ bundle'.last.op \in Disallowed) =>
     /\ bundle'.last.result = "NotInBundle"
     /\ Effects(bundle') = Effects(bundle)

C17_Step ==
  (bundle' # bundle /\ bundle'.last.op = "run") =>
     /\ bundle.nested > 0 =>
          /\ bundle'.last.result = Null
          /\ bundle'.submits = bundle.submits /\ bundle'.saves = bundle.saves
     /\ bundle.nested = 0 => bundle'.last.result \in {"submitted", "saved"}

C17_NestedRuns == [][C17_Step]_vars

\* C18: messages added by execute and instantiate appear in the log in call
\* order; wrap(cb) at depth 0 runs the callback, then calls exactly one of
\* submit and save exactly once (save exactly when the flag is true) with the
\* log holding the messages added, in order, and returns that call's result
C18_Step ==
  /\ (bundle' # bundle /\ bundle'.last.op \in {"execute", "instantiate"}) =>
        /\ Len(bundle'.msgs) = Len(bundle.msgs) + 1
        /\ SubSeq(bundle'.msgs, 1, Len(bundle.msgs)) = bundle.msgs
  /\ (bundle' # bundle /\ bundle'.last.op = "wrap" /\ bundle.depth = 0) =>
        /\ bundle'.msgs = bundle.msgs \o
             [i \in 1..Len(bundle'.last.added) |->
                [kind |-> "exec", sender |-> BundleAddress,
                 msg |-> bundle'.last.added[i]]]
        /\ bundle'.sent = bundle'.msgs
        /\ bundle'.submits + bundle'.saves = bundle.submits + bundle.saves + 1
        /\ bundle'.saves = bundle.saves + 1 <=> bundle'.last.save
        /\ bundle'.last.result = IF bundle'.last.save THEN "saved" ELSE "submitted"

C18_WrapInOrder == [][C18_Step]_vars

\* a wrap at depth 0 whose callback added two different messages to a log,
\* saved rather than submitted
C18_Witness ==
  /\ bundle.last.op = "wrap"
  /\ bundle.last.result = "saved"
  /\ Len(bundle.last.added) = 2
  /\ bundle.last.added[1] # bundle.last.added[2]
  /\ bundle.saves = 1 /\ bundle.submits = 0
  /\ bundle.sent = bundle.msgs

\* C19: run() or wrap() at depth 0 on an empty bundle fails with EmptyBundle
\* and nothing is submitted; assertMessages throws exactly when the log is
\* empty and returns the log otherwise
C19_Step ==
  /\ (bundle' # bundle /\ bundle'.last.op \in {"run", "wrap"}
        /\ bundle.depth = 0 /\ bundle'.msgs = << >>) =>
        /\ bundle'.last.result = "EmptyBundle"
        /\ bundle'.submits = bundle.submits /\ bundle'.saves = bundle.saves
  /\ (bundle'.last.op = "assertMessages") =>
        (bundle'.last.result = "EmptyBundle" <=> bundle'.msgs = << >>)

C19_EmptyBundle == [][C19_Step]_vars

\* C20: Bundle.instantiate and Bundle.execute each append exactly one record,
\* init or exec, whose sender is the bundle's address, call neither submit
\* nor save nor the wrapped agent, and instantiate returns an instance whose
\* address is null
C20_Step ==
  (bundle' # bundle /\ bundle'.last.op \in {"execute", "instantiate"}) =>
     /\ Len(bundle'.msgs) = Len(bundle.msgs) + 1
     /\ bundle'.msgs[Len(bundle'.msgs)].kind =
          (IF bundle'.last.op = "execute" THEN "exec" ELSE "init")
     /\ bundle'.msgs[Len(bundle'.msgs)].sender = BundleAddress
     /\ bundle'.submits = bundle.submits /\ bundle'.saves = bundle.saves
     /\ bundle'.sent = bundle.sent
     /\ bundle'.agentCalls = bundle.agentCalls
     /\ bundle'.last.op = "instantiate" => bundle'.last.address = Null

C21_NodeWins ==
  chain.op = "constructed" =>
    LET given == chain.given.options
        self  == chain.self
        bare  == NewChain(chain.given.id, [given EXCEPT !.node = NoNode])
    IN  /\ self.node.present <=> (given.mode = "Devnet" /\ given.node.present)
        /\ self.node.present =>
             /\ self.node = given.node
             /\ self.url = String(given.node.url)
             /\ self.id = given.node.chainId
        /\ (given.node.present /\ given.mode # "Devnet") =>
             /\ self.id = bare.id /\ self.url = bare.url /\ self.node = bare.node
             /\ self.id = chain.given.id /\ self.node = NoNode

\* a devnet chain constructed with an id and a url that differ from its node's
C21_Witness ==
  /\ chain.op = "constructed"
  /\ chain.given.options.mode = "Devnet"
  /\ chain.given.options.node = DevnetHandle
  /\ chain.given.id = "id" /\ chain.given.options.url = "url"
  /\ chain.self.id = "devnet-id" /\ chain.self.url = "devnet-url"


\* C22: getAgent with a name and no mnemonic takes the identity from the
\* node's getGenesisAccount(name) when the chain has a devnet node, and the
\* node is respawned before the account is requested; on a chain without a
\* node it fails with NameOutsideDevnet and creates no agent
C22_Step ==
  LET call   == chain'.call
      byName == call.options.name # Undef /\ call.options.mnemonic = Undef
  IN  (chain'.call # chain.call /\ byName) =>
        /\ chain.self.node.present =>
             /\ call.pc = "getGenesisAccount" =>
                  /\ chain.call.pc = "respawn"
                  /\ call.calls = <<"respawn", "getGenesisAccount">>
             /\ call.pc = "resolved" =>
                  /\ chain.call.pc = "getGenesisAccount"
                  /\ call.agent = GenesisAccount(call.options.name)
                  /\ chain'.agents = chain.agents + 1
        /\ ~chain.self.node.present =>
             /\ call.pc = "rejected" /\ call.error = "NameOutsideDevnet"
             /\ call.calls = << >>
             /\ ~call.created /\ chain'.agents = chain.agents

C23_Reads ==
  /\ chain.wait.promise = "pending"
  /\ chain.wait.pc \in {"height", "poll"}
  /\ chain'.wait # chain.wait

\* C23: nextBlock resolves once the block number strictly increases: never
\* while every polled height is at most the height read when waiting began,
\* at the first poll that sees a greater height, and it rejects if reading
\* the height fails
C23_Step ==
  C23_Reads =>
    LET read == chain'.wait.read
    IN  /\ chain'.wait.promise = "resolved" <=>
             (chain.wait.pc = "poll" /\ read.ok
                /\ read.height > chain.wait.startingHeight)
        /\ ~read.ok => chain'.wait.promise = "rejected"

C23_NextBlock == [][C23_Step]_vars


\* C24: uploadMany and instantiateMany call the singular operation exactly
\* once per entry and return results that match their inputs by position,
\* or by key for a keyed input, whatever order the calls complete in;
\* instantiateMany also sets each result's codeHash to the template's
C24_FanOut ==
  calc.op \in {"uploadMany", "instantiateMany"} =>
    /\ Len(calc.calls) = Len(calc.keys)
    /\ \A i \in 1..Len(calc.calls) : calc.calls[i].arg = i
    /\ calc.promise # "TypeError"
    /\ calc.promise = "resolved" =>
         \A i \in 1..Len(calc.keys) :
            /\ calc.outputs[i].of = i
            /\ calc.op = "instantiateMany" =>
                 calc.outputs[i].codeHash = TemplateCodeHash


\* C25: when the requested revision is not HEAD, phase 1 prepares a checkout
\* of it (copy of .git, worktree entry stripped, branch ref, clone into the
\* scratch tree, submodules) before phase 2 starts for any crate, so every
\* crate is compiled from that checkout and never from the working tree;
\* only HEAD builds in place
C25_BuildsFromCheckout ==
  script.op # "none" =>
    \A i \in 1..Len(script.commands) :
       script.commands[i].command = "cargo build" =>
          IF script.ref = HEAD
          THEN script.commands[i].cwd = WorkingTreeSubdir
          ELSE /\ script.prepared = HistorySteps
               /\ script.commands[i].cwd = CheckoutSubdir


\* the commands of phase 2, in the order of one crate
Phase2Steps == <<"cargo build", "wasm-opt", "sha256sum">>

\* C26: phase 2 runs, for each requested crate in the order given, cargo
\* build, then wasm-opt into <sanitized-crate>@<sanitized-revision>.wasm of
\* the output directory, then the sha256 write beside it; when a step fails
\* no later step runs and no later crate is built, so a checksum is written
\* only after the optimized artifact of the same run exists
C26_Phase2InOrder ==
  script.op # "none" =>
    LET commands == script.commands
        steps    == SubSeq(commands, 2, Len(commands))
        name(i)  == [k \in 1..Len(script.crates[i]) |->
                       IF script.crates[i][k] = "/" THEN "_" ELSE script.crates[i][k]]
                    \o <<"@">>
                    \o [k \in 1..Len(script.ref) |->
                          IF script.ref[k] = "/" THEN "_" ELSE script.ref[k]]
                    \o <<".wasm">>
    IN  /\ \A j \in 1..Len(steps) :
             /\ steps[j].command = Phase2Steps[((j - 1) % 3) + 1]
             /\ steps[j].crate = ((j - 1) \div 3) + 1
             /\ steps[j].crate <= Len(script.crates)
        /\ \A j \in 1..(Len(commands) - 1) : commands[j].ok
        /\ script.exit = "failed" => ~commands[Len(commands)].ok
        /\ script.exit = "ok" => Len(steps) = 3 * Len(script.crates)
        /\ \A j \in 1..Len(steps) :
             /\ (steps[j].command = "wasm-opt" /\ steps[j].ok) =>
                   name(steps[j].crate) \in script.files
             /\ steps[j].command = "sha256sum" =>
                   /\ name(steps[j].crate) \in script.files
                   /\ name(steps[j].crate) \o <<".sha256">> \in script.files
        /\ \A f \in script.files :
             \E j \in 1..Len(steps) :
                /\ steps[j].command = "wasm-opt" /\ steps[j].ok
                /\ f \in {name(steps[j].crate), name(steps[j].crate) \o <<".sha256">>}

\* two crates requested of a revision with a slash in its name: the first is
\* built, optimized and summed, the second fails in wasm-opt and the script
\* ends there
C26_Witness ==
  /\ script.op = "exited" /\ script.exit = "failed"
  /\ script.ref = <<"f", "/", "x">>
  /\ script.crates = << <<"a">>, <<"b", "/", "c">> >>
  /\ Len(script.commands) = 6
  /\ script.commands[6].command = "wasm-opt"
  /\ script.files = { <<"a", "@", "f", "_", "x", ".wasm">>,
                      <<"a", "@", "f", "_", "x", ".wasm", ".sha256">> }


\* the contracts whose buildOne starts in this step
C27_Started ==
  {n \in DOMAIN ensemble.status :
     ensemble.status[n] = "waiting" /\ ensemble'.status[n] # "waiting"
       /\ ensemble'.builds = ensemble.builds}

\* C27: a build whose target artifact file already exists is skipped: no
\* builder is invoked and the existing path is returned; of two consecutive
\* builds of the same contracts the second compiles nothing and yields the
\* artifacts of the first
C27_Step ==
  /\ \A n \in C27_Started :
        BuildOutput(ensemble.contracts[n]) \in ensemble'.files =>
           /\ ensemble'.status[n] = "skipped"
           /\ ensemble'.artifacts[n] = BuildOutput(ensemble.contracts[n])
           /\ \A k \in 1..Len(ensemble'.compiled) : ensemble'.compiled[k] # n
  /\ (ensemble'.builds > 1 /\ ensemble'.previous.promise = "resolved") =>
        /\ ensemble'.compiled = << >>
        /\ ensemble'.op = "building" \/ ensemble'.promise = "resolved" =>
              /\ ensemble'.promise = "resolved"
              /\ ensemble'.artifacts = ensemble'.previous.artifacts

C28_PulledOnce ==
  ensemble.op # "none" =>
    /\ ensemble.pulls = ensemble.builds
    /\ ensemble.op = "pulling" =>
         /\ ensemble.compiled = << >>
         /\ \A n \in DOMAIN ensemble.status : ensemble.status[n] = "waiting"
    /\ ensemble.promise = "resolved" =>
         \A n \in DOMAIN ensemble.artifacts :
            ensemble.artifacts[n] = BuildOutput(ensemble.contracts[n])

\* a parallel build in which both contracts were handed to the builder
\* together and the second was finished first
C28_Witness ==
  /\ ensemble.parallel /\ ensemble.builds = 1 /\ ensemble.pulls = 1
  /\ ensemble.compiled = ContractNames
  /\ ensemble.status["x"] = "building" /\ ensemble.status["y"] = "built"
  /\ ensemble.artifacts["y"] = BuildOutput(ensemble.contracts["y"])


\* C30: devnet state round-trips: after save(), load() on a supervisor
\* pointed at the same state directory returns the saved chainId and port
\* and sets the supervisor's port to the stored port; a stored chainId that
\* differs from the supervisor's only produces a warning and load() still
\* returns the stored data
C30_Step ==
  (devnet'.calls # devnet.calls /\ devnet'.last.op = "load"
     /\ devnet.file \notin {NoFile, Garbage}) =>
     LET i == devnet'.last.node
     IN  /\ devnet'.last.returned = "data"
         /\ devnet'.last.data = devnet.saved
         /\ devnet'.nodes[i].port = devnet.saved.port
         /\ devnet'.nodes[i].chainId = devnet.nodes[i].chainId
         /\ devnet'.last.warnings =
              (IF devnet.nodes[i].chainId # devnet.saved.chainId
               THEN {"loadingState"} ELSE {})
         /\ devnet'.file = devnet.file

C30_RoundTrip == [][C30_Step]_vars

\* a supervisor with another chain id and another port loads what the first
\* one saved: it is warned, takes the port, and gets the data
C30_Witness ==
  /\ devnet.op = "devnet"
  /\ devnet.last.op = "load" /\ devnet.last.node = 2
  /\ devnet.last.returned = "data" /\ devnet.last.warnings = {"loadingState"}
  /\ devnet.last.data = [chainId |-> "fadroma-devnet", port |-> 9091]
  /\ devnet.nodes[1].alive /\ devnet.nodes[1].chainId = "fadroma-devnet"
  /\ devnet.nodes[1].port = 9091
  /\ devnet.nodes[2].alive /\ devnet.nodes[2].chainId = "other"
  /\ devnet.nodes[2].port = 9091


\* C29: upload is idempotent per (chainId, codeHash): uploading the same
\* artifact to the same chain a second time returns the codeId stored in
\* the upload receipt of the first upload and performs no second on-chain
\* upload
C29_Step ==
  /\ \A n \in DOMAIN ensemble'.up.receipts :
        LET chainId == ensemble'.up.chainId
            before  == IF ensemble'.uploads = ensemble.uploads
                       THEN ensemble.up.receipts[n] ELSE NoReceipt
            stored  == ReceiptsOf(ensemble, chainId,
                                  CodeHashOf(ensemble'.up.artifacts[n]))
        IN  (ensemble'.up.receipts[n] # before /\ stored # {}) =>
               /\ ensemble'.up.receipts[n] \in stored
               /\ n \in ensemble'.up.cached
  /\ \A c \in UploadChains :
        ensemble'.sent[c] > ensemble.sent[c] =>
           /\ ensemble'.sent[c] = ensemble.sent[c] + 1
           /\ ensemble'.up.pc = "uploading" /\ ensemble'.up.chainId = c
           /\ ReceiptsOf(ensemble', c,
                CodeHashOf(ensemble'.up.artifacts[ContractNames[ensemble'.up.i]])) = {}
  /\ \A r, q \in ensemble'.store :
        (r.chainId = q.chainId /\ r.codeHash = q.codeHash) => r = q

C31_Step(i) ==
  /\ (devnet'.nodes[i].term = "erasing" /\ devnet.nodes[i].term # "erasing")
        => (devnet.nodes[i].term = "killing" /\ ~devnet'.nodes[i].running)
  /\ devnet.nodes[i].term = "erasing" => ~devnet.nodes[i].running
  /\ (devnet.nodes[i].term = "killing" /\ devnet'.last.op = "kill"
        /\ devnet'.last.node = i /\ devnet'.last.returned = "throws")
        => (devnet'.nodes[i].term = "idle" /\ devnet'.file = devnet.file)
C31_KillThenErase ==
  [][devnet.op = "devnet" => \A i \in 1..NDevnets : C31_Step(i)]_vars

\* a saved devnet whose state was erased by terminate()
C31_Witness ==
  /\ devnet.op = "devnet"
  /\ devnet.last.op = "erase" /\ devnet.last.returned = "this"
  /\ devnet.saved.chainId # Undef /\ devnet.file = NoFile
  /\ devnet.calls = MaxDevnetCalls

\* C32: on one Mocknet the k-th upload is given codeId k as a decimal
\* string, starting at "1"; each codeId is one more than the one before and
\* none is used twice; every template returned carries the mocknet's chain
\* id; and instantiating a codeId nothing was uploaded under is rejected
\* and adds no instance.
C32_CodeIds ==
  chain.op = "mocknet" =>
    /\ \A k \in 1..Len(chain.templates) :
         /\ chain.templates[k].codeId = CodeIdText(k)
         /\ chain.templates[k].chainId = chain.id
         /\ k > 1 => CodeIdNumber(chain.templates[k].codeId)
                       = CodeIdNumber(chain.templates[k - 1].codeId) + 1
    /\ Len(chain.templates) > 0 => chain.templates[1].codeId = "1"
    /\ \A j, k \in 1..Len(chain.templates) :
         j # k => chain.templates[j].codeId # chain.templates[k].codeId
    /\ (chain.last.op = "instantiate"
          /\ \A k \in 1..Len(chain.templates) :
               chain.templates[k].codeId # chain.last.arg)
         => chain.last.returned = "rejects"
    /\ \A i \in 1..Len(chain.instances) :
         \E k \in 1..Len(chain.templates) :
            chain.templates[k].codeId = chain.instances[i].codeId

\* two uploads on a fresh Mocknet, then code id "3" is refused
C32_Witness ==
  /\ chain.op = "mocknet"
  /\ Len(chain.templates) = 2
  /\ chain.templates[1].codeId = "1" /\ chain.templates[2].codeId = "2"
  /\ chain.last.op = "instantiate" /\ chain.last.arg = "3"
  /\ chain.last.returned = "rejects"

\* C33: each mocknet instance has a key-value store of its own that lasts
\* across calls: a query returns the value the instance's init or handle
\* last wrote, fails after the key was deleted until it is written again,
\* and a write or delete by one instance changes the store of no other.
C33_Step ==
  chain.op = "mocknet" =>
    LET i == chain'.last.instance
        n == Len(chain.instances)
    IN  /\ \A j \in 1..n : (j # i \/ chain'.last.op \notin {"handle"})
             => chain'.db[j] = chain.db[j]
        /\ \A j \in 1..n : chain'.instances[j] = chain.instances[j]
        /\ (chain'.last.op = "query" /\ chain.instances[i].blob = "KV") =>
             /\ chain'.last.returned =
                  (IF chain.written[i] = Absent THEN "Err" ELSE chain.written[i])
             /\ chain'.db = chain.db
C33_OwnStore == [][C33_Step]_vars

\* two KV instances: the second deleted its value and its query fails,
\* while the first still holds what it was last told to set
C33_Witness ==
  /\ chain.op = "mocknet"
  /\ Len(chain.instances) = 2
  /\ chain.instances[1].blob = "KV" /\ chain.instances[2].blob = "KV"
  /\ chain.written = <<"bar", Absent>>
  /\ chain.db[1]["value"] = "bar"
  /\ chain.last.op = "query" /\ chain.last.instance = 2
  /\ chain.last.returned = "Err"

\* C34: the bundle depth counter is never negative, and it equals the
\* number of bundle() calls made so far minus the number of run() calls
\* that returned null (each run() at depth > 0 lowers depth by one)
C34_DepthCounts ==
  /\ bundle.depth >= 0
  /\ bundle.depth = bundle.nested

\* C35: in every reachable bundle state id equals the number of messages in
\* the log and the log has no gaps, a message added is stored at the index
\* that id had, and only add, instantiate and execute change the log:
\* bundle(), run(), getCodeId/getLabel/getHash/checkHash, assertMessages and
\* every forbidden operation leave msgs and id unchanged.
C35_Step ==
  /\ bundle'.id = Len(bundle'.msgs)
  /\ \A k \in 1..Len(bundle'.msgs) : bundle'.msgs[k] # Hole
  /\ (bundle' # bundle /\ bundle'.last.op \in {"execute", "instantiate"}) =>
        /\ bundle'.id = bundle.id + 1
        /\ bundle'.msgs[bundle.id + 1].msg \in Messages
        /\ \A k \in 1..Len(bundle.msgs) : bundle'.msgs[k] = bundle.msgs[k]
  /\ (bundle' # bundle
        /\ bundle'.last.op \in ({"bundle", "run", "assertMessages"}
                                  \cup Delegated \cup Disallowed)) =>
        /\ bundle'.msgs = bundle.msgs
        /\ bundle'.id = bundle.id
C35_LogAndId == [][C35_Step]_vars

\* a run() that returned null between two messages: the log holds both and
\* id is 2
C35_Witness ==
  /\ bundle.last.op = "execute"
  /\ bundle.id = 2 /\ Len(bundle.msgs) = 2
  /\ bundle.nested = 0 /\ bundle.depth < 0

\* C36: every entry of a Deployment's state is an instantiated contract: a
\* name is in the deployment only if the contract stored under it has an
\* address, and a deployment with no instantiated contract has no entry and
\* was not saved (declaring a contract adds no entry and saves nothing)
C36_EntriesInstantiated ==
  /\ \A n \in Names : Has(state, n) => IsSet(EntryClient(state[n]).address)
  /\ (\A k \in Contracts : ~IsSet(contract[k].address)) => saves = 0

\* C37: deploy(initMsg) with an init message given, on a contract whose
\* stored initMsg is unset, instantiates with the message given;
\* NoInitMessage is raised only when neither the argument nor the stored
\* initMsg provides a message.  (A deploy task's arg is the argument, or
\* the stored initMsg when the argument is left out.)
C37_ExplicitInitMsg ==
  \A t \in 1..Len(tasks) :
     (tasks[t].kind = "deploy" /\ IsSet(tasks[t].arg))
        => tasks[t].err # "NoInitMessage"

\* C38: the artifact file name is injective in (crate, revision): two
\* different (crate, revision) pairs are never given the same
\* <sanitized-crate>@<sanitized-revision>.wasm path
C38_Injective ==
  calc.op = "named" =>
    (calc.optimized[1] = calc.optimized[2] => calc.builds[1] = calc.builds[2])

\* C39: nextBlock's polling is bounded by its resolution: once the promise
\* of nextBlock has resolved or rejected, no further turn of its loop is
\* taken and no further height is read on its behalf
C39_Step ==
  (chain.op = "constructed" /\ chain.wait.promise \in {"resolved", "rejected"})
     => chain'.wait.polls <= chain.wait.polls
C39_PollingEnds == [][C39_Step]_vars

\* C40: load() on missing state returns null and changes neither the
\* supervisor's port nor anything on disk; when devnet.json is there but
\* cannot be read, load() deletes the state directory and rethrows the
\* error, leaving the supervisor's port as it was
C40_Step ==
  (devnet'.calls # devnet.calls /\ devnet'.last.op = "load") =>
     LET i == devnet'.last.node
     IN  /\ devnet.file = NoFile =>
              /\ devnet'.last.returned = "null"
              /\ devnet'.nodes = devnet.nodes
              /\ devnet'.file = devnet.file
         /\ devnet.file = Garbage =>
              /\ devnet'.last.returned = "throws"
              /\ devnet'.file = NoFile
              /\ devnet'.nodes = devnet.nodes
C40_LoadFailures == [][C40_Step]_vars

\* a supervisor on port 5000 has loaded a devnet.json that does not parse:
\* the error is thrown, the state is gone, the port is still 5000
C40_Witness ==
  /\ devnet.op = "devnet"
  /\ devnet.last.op = "load" /\ devnet.last.returned = "throws"
  /\ devnet.last.warnings = {"loadingFailed"}
  /\ devnet.file = NoFile
  /\ devnet.saved.port = 1317
  /\ devnet.nodes[devnet.last.node].port = 5000

====
